---- MODULE Spec2Model ----
(***************************************************************************)
(* Model of the data-steward scripts.                                      *)
(*                                                                         *)
(* Part 1: fu_population.py, pop_within_buffer: the sum of the population  *)
(* cells of the raster tiles that a circular buffer around a point covers. *)
(* The call is a state machine over the lines of the function; the raster  *)
(* files, the coordinate transformer, the buffer polygon and               *)
(* rasterio.mask.mask are the environment, modelled by what the function   *)
(* observes of them.                                                       *)
(*                                                                         *)
(* Lengths are integers in one model unit (250 m); a cell value is a       *)
(* record so that NaN and the infinities keep their IEEE comparisons; a    *)
(* sum is a floating-point sum with MantBits bits of precision.            *)
(***************************************************************************)
EXTENDS Integers, Sequences, FiniteSets, TLC

\* ---------------------------------------------------------------- bounds

\* The longest tif_paths sequence a call is given.
MaxTiles == 3

\* Bits of precision of the floating-point format (53 in the program's
\* float64; small here so that rounding happens on small sums).
MantBits == 3

\* ------------------------------------------------------- floating point

Num(n) == [cls |-> "num", v |-> n]
NaN == [cls |-> "nan", v |-> 0]
PosInf == [cls |-> "inf", v |-> 1]
NegInf == [cls |-> "inf", v |-> -1]
\* Python's None where a cell value may be absent (src.nodata).
None == [cls |-> "none", v |-> 0]
\* Python's None as src.crs.
NoCRS == "None"

Max(a, b) == IF a >= b THEN a ELSE b
Min(a, b) == IF a <= b THEN a ELSE b
CeilDiv(a, b) == -((-a) \div b)

RECURSIVE Pow2(_)
Pow2(e) == IF e <= 0 THEN 1 ELSE 2 * Pow2(e - 1)

\* The spacing of the representable numbers at n >= 0: 1 below 2^MantBits,
\* doubling with every further binary digit of n.
RECURSIVE Ulp(_)
Ulp(n) == IF n < Pow2(MantBits) THEN 1 ELSE 2 * Ulp(n \div 2)

\* n >= 0 rounded to the nearest representable number, ties to even.
Fl(n) ==
    LET step == Ulp(n)
        q == n \div step
        rem == n % step
    IN  IF 2 * rem < step THEN q * step
        ELSE IF 2 * rem > step THEN (q + 1) * step
        ELSE IF q % 2 = 0 THEN q * step ELSE (q + 1) * step

\* a + b of two non-negative floats.
FAdd(a, b) == Fl(a + b)

\* numpy's elementwise data != nodata: NaN differs from everything.
FNe(a, b) == IF a.cls = "nan" \/ b.cls = "nan" THEN TRUE ELSE a # b
\* numpy.isfinite.
FIsFinite(a) == a.cls = "num"
\* numpy's elementwise data >= 0: false for NaN, true for +inf.
FGe0(a) == (a.cls = "num" /\ a.v >= 0) \/ (a.cls = "inf" /\ a.v > 0)

\* The plain loop of numpy's sum: res += a[k], left to right.
RECURSIVE FSumLoop(_, _)
FSumLoop(res, s) ==
    IF s = << >> THEN res ELSE FSumLoop(FAdd(res, Head(s).v), Tail(s))

\* numpy's sum of a 1-D float array of at most 128 elements: the plain loop
\* from 0 below eight elements; from eight on, eight running sums over the
\* elements eight apart, added up in pairs, and the plain loop over what is
\* left of the array.
FSum(s) ==
    IF Len(s) < 8 THEN FSumLoop(0, s)
    ELSE LET n == Len(s)
             m == n - (n % 8)
             r(j) == FSumLoop(0, [k \in 1..(m \div 8) |-> s[j + 8 * (k - 1)]])
             res == FAdd(FAdd(FAdd(r(1), r(2)), FAdd(r(3), r(4))),
                         FAdd(FAdd(r(5), r(6)), FAdd(r(7), r(8))))
         IN  FSumLoop(res, SubSeq(s, m + 1, n))

\* s without the elements that fail Keep, in order (data[valid]).
RECURSIVE SelectSeqBy(_, _)
SelectSeqBy(s, keep) ==
    IF s = << >> THEN << >>
    ELSE LET rest == SelectSeqBy(SubSeq(s, 1, Len(s) - 1), SubSeq(keep, 1, Len(s) - 1))
         IN  IF keep[Len(s)] THEN Append(rest, s[Len(s)]) ELSE rest

\* The rows of a 2-D array one after the other (row-major flattening).
RECURSIVE Flatten(_)
Flatten(rows) ==
    IF rows = << >> THEN << >> ELSE Flatten(SubSeq(rows, 1, Len(rows) - 1)) \o rows[Len(rows)]

\* ------------------------------------------------------------ the files

\* What rasterio.open finds at each path. opens: whether the file can be
\* opened; crs: None or a CRS name; left/top/res/grid: origin, cell size
\* and cell values (rows from the top); nodata: the declared sentinel or
\* None; readable: whether the pixel blocks can be read.
Paths == {"west.tif", "east.tif", "far.tif", "utm.tif", "nocrs.tif",
          "missing.tif", "corrupt.tif"}

Disk(p) ==
    CASE p = "west.tif" ->
           [opens |-> TRUE, crs |-> "EPSG:A", left |-> 0, top |-> 4, res |-> 2,
            nodata |-> Num(-1), readable |-> TRUE,
            grid |-> << <<Num(2), Num(-1)>>,
                        <<Num(-5), Num(6)>> >>]
      [] p = "east.tif" ->
           [opens |-> TRUE, crs |-> "EPSG:A", left |-> 4, top |-> 4, res |-> 2,
            nodata |-> None, readable |-> TRUE,
            grid |-> << <<Num(1), Num(-200)>>,
                        <<NaN, PosInf>> >>]
      [] p = "far.tif" ->
           [opens |-> TRUE, crs |-> "EPSG:A", left |-> 40, top |-> 44, res |-> 2,
            nodata |-> Num(-200), readable |-> TRUE,
            grid |-> << <<Num(3), Num(3)>>,
                        <<Num(3), Num(3)>> >>]
      [] p = "utm.tif" ->
           [opens |-> TRUE, crs |-> "EPSG:B", left |-> -10, top |-> 5, res |-> 2,
            nodata |-> Num(-200), readable |-> TRUE,
            grid |-> << <<Num(-200), Num(-3)>>,
                        <<Num(-200), Num(-200)>>,
                        <<Num(2), NegInf>> >>]
      [] p = "nocrs.tif" ->
           [opens |-> TRUE, crs |-> NoCRS, left |-> 40, top |-> 4, res |-> 2,
            nodata |-> Num(-200), readable |-> TRUE,
            grid |-> << <<Num(1), Num(1)>>,
                        <<Num(1), Num(1)>> >>]
      [] p = "corrupt.tif" ->
           [opens |-> TRUE, crs |-> "EPSG:A", left |-> 2, top |-> 6, res |-> 2,
            nodata |-> Num(-200), readable |-> FALSE,
            grid |-> << <<Num(1), Num(1)>>,
                        <<Num(1), Num(1)>> >>]
      [] p = "grid2.tif" ->
           [opens |-> TRUE, crs |-> "EPSG:A", left |-> 1, top |-> 5, res |-> 2,
            nodata |-> Num(-1), readable |-> TRUE,
            grid |-> [r \in 1..2 |-> [c \in 1..2 |-> Num(10)]]]
      [] p = "grid4.tif" ->
           [opens |-> TRUE, crs |-> "EPSG:A", left |-> -1, top |-> 7, res |-> 2,
            nodata |-> Num(-1), readable |-> TRUE,
            grid |-> [r \in 1..4 |-> [c \in 1..4 |-> Num(10)]]]
      [] p = "geo.tif" ->
           [opens |-> TRUE, crs |-> "EPSG:4326", left |-> 0, top |-> 2, res |-> 1,
            nodata |-> Num(-200), readable |-> TRUE,
            grid |-> << <<Num(1), Num(2)>>,
                        <<Num(3), Num(4)>> >>]
      [] OTHER ->
           [opens |-> FALSE, crs |-> NoCRS, left |-> 0, top |-> 0, res |-> 2,
            nodata |-> None, readable |-> FALSE,
            grid |-> << <<Num(0)>> >>]

Height(t) == Len(t.grid)
Width(t) == Len(t.grid[1])

\* src.bounds: left, bottom, right, top.
Bounds(t) ==
    [left |-> t.left, bottom |-> t.top - t.res * Height(t),
     right |-> t.left + t.res * Width(t), top |-> t.top]

\* ------------------------------------------------- the library calls

\* Transformer.from_crs("EPSG:4326", crs, always_xy=True).transform(lon, lat):
\* a projected CRS maps a degree to three units, each from its own false
\* origin; a geographic CRS keeps the degrees.
Transform(crs, lon_, lat_) ==
    CASE crs = "EPSG:A" -> [x |-> 3 * lon_, y |-> 3 * lat_]
      [] crs = "EPSG:B" -> [x |-> 3 * lon_ - 11, y |-> 3 * lat_]
      [] OTHER -> [x |-> lon_, y |-> lat_]

\* Point(x, y).buffer(buffer_m): the disc of that radius, and its bounds.
Buffer(pt, r) == [x |-> pt.x, y |-> pt.y, r |-> r]
GeomBounds(g) ==
    [minx |-> g.x - g.r, miny |-> g.y - g.r, maxx |-> g.x + g.r, maxy |-> g.y + g.r]

\* rasterio.features.geometry_window: the pixel window of the geometry's
\* bounds (floor of the start, ceiling of the stop), intersected with the
\* raster's own window; the intersection is empty unless both extents are
\* positive.
GeometryWindow(g, t) ==
    LET b == GeomBounds(g)
        col_start == (b.minx - t.left) \div t.res
        col_stop == CeilDiv(b.maxx - t.left, t.res)
        row_start == (t.top - b.maxy) \div t.res
        row_stop == CeilDiv(t.top - b.miny, t.res)
        c0 == Max(col_start, 0)
        c1 == Min(col_stop, Width(t))
        r0 == Max(row_start, 0)
        r1 == Min(row_stop, Height(t))
    IN  [ok |-> (c1 - c0 > 0) /\ (r1 - r0 > 0), r0 |-> r0, r1 |-> r1, c0 |-> c0, c1 |-> c1]

\* Mutant of Touched: all_touched=False, the cell is burned when its centre
\* is in the disc.
TouchedCentre(g, t, row, col) ==
    LET cx2 == 2 * (t.left + col * t.res) + t.res
        cy2 == 2 * (t.top - row * t.res) - t.res
        dx2 == cx2 - 2 * g.x
        dy2 == cy2 - 2 * g.y
    IN  dx2 * dx2 + dy2 * dy2 < 4 * g.r * g.r

\* all_touched=True: the cell in 0-based (row, col) is burned when the disc
\* reaches into it.
Touched(g, t, row, col) ==
    LET x0 == t.left + col * t.res
        x1 == x0 + t.res
        y1 == t.top - row * t.res
        y0 == y1 - t.res
        dx == Max(Max(x0 - g.x, g.x - x1), 0)
        dy == Max(Max(y0 - g.y, g.y - y1), 0)
    IN  dx * dx + dy * dy < g.r * g.r

\* The value mask() fills masked cells with: the declared nodata, else 0.
FillValue(t) == IF t.nodata # None THEN t.nodata ELSE Num(0)

\* Whether dataset.read(masked=True) masks the cell: it holds the nodata.
DatasetMasked(t, v) ==
    /\ t.nodata # None
    /\ IF t.nodata.cls = "nan" THEN v.cls = "nan" ELSE v = t.nodata

\* rasterio.mask.mask(src, [geom], crop=True, all_touched=True, filled=True):
\* ValueError when the shapes do not overlap the raster, the read's error
\* when the pixels cannot be read, else the window's cells with every cell
\* outside the shape (or masked in the dataset) set to the fill value.
Mask(g, t) ==
    LET w == GeometryWindow(g, t)
    IN  IF ~w.ok THEN [exc |-> "ValueError", img |-> << >>]
        ELSE IF ~t.readable THEN [exc |-> "RasterioIOError", img |-> << >>]
        ELSE [exc |-> "none",
              img |-> [i \in 1..(w.r1 - w.r0) |->
                        [j \in 1..(w.c1 - w.c0) |->
                           LET row == w.r0 + i - 1
                               col == w.c0 + j - 1
                               v == t.grid[row + 1][col + 1]
                           IN  IF Touched(g, t, row, col) /\ ~DatasetMasked(t, v)
                               THEN v ELSE FillValue(t)]]]

\* ------------------------------------------------- pop_within_buffer

\* Mutant of BBoxSkip: a buffer that only touches the tile is rejected too.
BBoxSkipTouching(g, t) ==
    LET b == GeomBounds(g)
        s == Bounds(t)
    IN  (b.maxx <= s.left) \/ (b.minx >= s.right) \/ (b.maxy <= s.bottom) \/ (b.miny >= s.top)

\* Line 36: the quick bbox skip.
BBoxSkip(g, t) ==
    LET b == GeomBounds(g)
        s == Bounds(t)
    IN  (b.maxx < s.left) \/ (b.minx > s.right) \/ (b.maxy < s.bottom) \/ (b.miny > s.top)

\* Line 54: the sentinel the cells are compared with.
Nodata(t) == IF t.nodata # None THEN t.nodata ELSE Num(-200)

\* Mutant of Valid: the sign test is forgotten.
ValidNoSign(v, nodata) == FNe(v, nodata) /\ FIsFinite(v)

\* Line 55: valid = (data != nodata) & np.isfinite(data) & (data >= 0).
Valid(v, nodata) == FNe(v, nodata) /\ FIsFinite(v) /\ FGe0(v)

\* Lines 52-56: float(data[valid].sum()) of the clipped image.
ValidSum(img, t) ==
    LET data == Flatten(img)
        valid == [k \in 1..Len(data) |-> Valid(data[k], Nodata(t))]
    IN  FSum(SelectSeqBy(data, valid))

\* What a call has come to: still running, returned a float, or raised.
Running == [kind |-> "running", exc |-> "", msg |-> "", value |-> 0]
Return(v) == [kind |-> "return", exc |-> "", msg |-> "", value |-> v]
Raise(exc, msg) == [kind |-> "raise", exc |-> exc, msg |-> msg, value |-> 0]

\* Line 24 when the file cannot be opened.
OpenError == Raise("RasterioIOError", "open")
\* Line 27.
MissingCRSError == Raise("ValueError", "Raster has no CRS defined")
\* Line 59.
NoOverlapError == Raise("ValueError", "Buffer does not overlap any provided raster tiles.")
\* An error of mask() that line 47 does not catch.
ReadError == Raise("RasterioIOError", "read")

\* The arguments of the calls that are checked.
Lons == {0, 1, 2}
Lats == {0, 1}
Radii == {1, 4, 5}
PathSeqs == UNION {[1..n -> Paths] : n \in 0..MaxTiles}

\* The tiles of the calls on regular grids: 500 m cells that all hold 10.0
\* (2 x 2 and 4 x 4 cells around the same centre) and a tile in geographic
\* coordinates, next to a tile with negative codes and an unreadable one.
ScenarioPaths == {"west.tif", "grid2.tif", "grid4.tif", "geo.tif", "corrupt.tif"}
ScenarioSeqs == UNION {[1..n -> ScenarioPaths] : n \in 0..MaxTiles}

VARIABLES
    tif_paths,    \* argument: the tiles, in order
    lat,          \* argument
    lon,          \* argument
    buffer_m,     \* argument
    pc,           \* the line the call is at
    i,            \* the position of the for loop in tif_paths (0 before it)
    src,          \* the datasets held open by the with statement (positions)
    geom,         \* line 31
    out_img,      \* line 40
    total_pop,    \* line 20
    any_overlap,  \* line 21
    result,       \* what the call returned or raised
    log           \* history: what was done to which position, in order

\* The state of the other programs of the repository, one record each
\* (parts 2 to 6 below); a program that is not running is Idle.
VARIABLES
    calls,        \* pop_within_buffer invocations running side by side
    retry,        \* ua_trends_by_region_year.py: _safe_interest_by_region
    san,          \* to_kml_shp.py: sanitize_filename
    tool,         \* to_kml_shp.py: main
    maps,         \* Map_automation_planting.py: produce_maps
    kmz,          \* to_kml_shp.py: export_kmz
    trends,       \* ua_trends_by_region_year.py: main
    driver        \* fu_population.py: the script under __main__

Idle == [pc |-> "idle"]
later == <<kmz, trends, driver>>
LaterIdle == kmz = Idle /\ trends = Idle /\ driver = Idle
rest == <<calls, retry, san, tool, maps, later>>

popvars == <<tif_paths, lat, lon, buffer_m, pc, i, src, geom, out_img,
             total_pop, any_overlap, result, log>>

vars == <<popvars, rest>>

args == <<tif_paths, lat, lon, buffer_m>>

Ev(ev, k) == [ev |-> ev, k |-> k]

\* Lines 14-21: the call starts.
Init ==
    /\ tif_paths \in PathSeqs
    /\ lat \in Lats
    /\ lon \in Lons
    /\ buffer_m \in Radii
    /\ pc = "for"
    /\ i = 0
    /\ src = {}
    /\ geom = Buffer([x |-> 0, y |-> 0], 0)
    /\ out_img = << >>
    /\ total_pop = 0
    /\ any_overlap = FALSE
    /\ result = Running
    /\ log = << >>
    /\ calls = Idle /\ retry = Idle /\ san = Idle /\ tool = Idle /\ maps = Idle /\ LaterIdle

\* Line 23: the loop takes the next path.
ForNext ==
    /\ pc = "for"
    /\ i < Len(tif_paths)
    /\ i' = i + 1
    /\ pc' = "open"
    /\ UNCHANGED <<rest, args, src, geom, out_img, total_pop, any_overlap, result, log>>

\* Line 23: the loop is exhausted.
ForExit ==
    /\ pc = "for"
    /\ i = Len(tif_paths)
    /\ pc' = "end"
    /\ UNCHANGED <<rest, args, i, src, geom, out_img, total_pop, any_overlap, result, log>>

\* Mutant of Open: a file that cannot be opened is skipped.
OpenSkipsUnreadable ==
    /\ pc = "open"
    /\ IF Disk(tif_paths[i]).opens
       THEN /\ src' = src \cup {i}
            /\ log' = Append(log, Ev("open", i))
            /\ pc' = "crs"
       ELSE /\ pc' = "for"
            /\ UNCHANGED <<src, log>>
    /\ UNCHANGED <<rest, args, i, geom, out_img, total_pop, any_overlap, result>>

\* Line 24: rasterio.open; its error leaves the function.
Open ==
    /\ pc = "open"
    /\ IF Disk(tif_paths[i]).opens
       THEN /\ src' = src \cup {i}
            /\ log' = Append(log, Ev("open", i))
            /\ pc' = "crs"
            /\ result' = result
       ELSE /\ result' = OpenError
            /\ pc' = "done"
            /\ UNCHANGED <<src, log>>
    /\ UNCHANGED <<rest, args, i, geom, out_img, total_pop, any_overlap>>

\* Mutant of CheckCRS: the CRS is only looked at for a tile the bbox test
\* keeps.
CheckCRSAfterBBox ==
    /\ pc = "crs"
    /\ LET t == Disk(tif_paths[i])
       IN  IF t.crs = NoCRS /\ ~BBoxSkip(Buffer(Transform(t.crs, lon, lat), buffer_m), t)
           THEN /\ result' = MissingCRSError
                /\ src' = src \ {i}
                /\ log' = Append(log, Ev("close", i))
                /\ pc' = "done"
           ELSE /\ pc' = "geom"
                /\ UNCHANGED <<result, src, log>>
    /\ UNCHANGED <<rest, args, i, geom, out_img, total_pop, any_overlap>>

\* Lines 25-27: no CRS raises out of the with block, which closes src.
CheckCRS ==
    /\ pc = "crs"
    /\ IF Disk(tif_paths[i]).crs = NoCRS
       THEN /\ result' = MissingCRSError
            /\ src' = src \ {i}
            /\ log' = Append(log, Ev("close", i))
            /\ pc' = "done"
       ELSE /\ pc' = "geom"
            /\ UNCHANGED <<result, src, log>>
    /\ UNCHANGED <<rest, args, i, geom, out_img, total_pop, any_overlap>>

\* Lines 29-31: the point in the tile's CRS and the buffer around it.
MakeGeom ==
    /\ pc = "geom"
    /\ geom' = Buffer(Transform(Disk(tif_paths[i]).crs, lon, lat), buffer_m)
    /\ pc' = "bbox"
    /\ UNCHANGED <<rest, args, i, src, out_img, total_pop, any_overlap, result, log>>

\* Mutant of BBox: the no-overlap error is raised inside the loop, at the
\* first tile the bbox test rejects while nothing has been clipped.
BBoxRaisesEarly ==
    /\ pc = "bbox"
    /\ IF BBoxSkip(geom, Disk(tif_paths[i]))
       THEN /\ src' = src \ {i}
            /\ log' = log \o <<Ev("bbox_skip", i), Ev("close", i)>>
            /\ IF any_overlap
               THEN pc' = "for" /\ result' = result
               ELSE pc' = "done" /\ result' = NoOverlapError
       ELSE /\ pc' = "mask"
            /\ UNCHANGED <<src, log, result>>
    /\ UNCHANGED <<rest, args, i, geom, out_img, total_pop, any_overlap>>

\* Mutant of BBox: the dataset is opened without the with statement, so the
\* continue leaves it open.
BBoxLeavesOpen ==
    /\ pc = "bbox"
    /\ IF BBoxSkip(geom, Disk(tif_paths[i]))
       THEN /\ log' = Append(log, Ev("bbox_skip", i))
            /\ pc' = "for"
       ELSE /\ pc' = "mask"
            /\ log' = log
    /\ UNCHANGED <<rest, args, i, src, geom, out_img, total_pop, any_overlap, result>>

\* Lines 34-37: continue when the bounding boxes are disjoint.
BBox ==
    /\ pc = "bbox"
    /\ IF BBoxSkip(geom, Disk(tif_paths[i]))
       THEN /\ src' = src \ {i}
            /\ log' = log \o <<Ev("bbox_skip", i), Ev("close", i)>>
            /\ pc' = "for"
       ELSE /\ pc' = "mask"
            /\ UNCHANGED <<src, log>>
    /\ UNCHANGED <<rest, args, i, geom, out_img, total_pop, any_overlap, result>>

\* Mutant of Clip: the flag is set before the try, so a clip that raises
\* ValueError still counts as an overlap.
ClipFlagsBeforeTry ==
    /\ pc = "mask"
    /\ any_overlap' = TRUE
    /\ LET m == Mask(geom, Disk(tif_paths[i]))
       IN  CASE m.exc = "none" ->
                  /\ out_img' = m.img
                  /\ log' = Append(log, Ev("clip", i))
                  /\ pc' = "accum"
                  /\ UNCHANGED <<src, result>>
             [] m.exc = "ValueError" ->
                  /\ src' = src \ {i}
                  /\ log' = log \o <<Ev("clip", i), Ev("clip_skip", i), Ev("close", i)>>
                  /\ pc' = "for"
                  /\ UNCHANGED <<out_img, result>>
             [] OTHER ->
                  /\ result' = Raise(m.exc, "read")
                  /\ src' = src \ {i}
                  /\ log' = log \o <<Ev("clip", i), Ev("close", i)>>
                  /\ pc' = "done"
                  /\ UNCHANGED out_img
    /\ UNCHANGED <<rest, args, i, geom, total_pop>>

\* Lines 39-49: mask(); a ValueError continues, any other error leaves the
\* function through the with block.
Clip ==
    /\ pc = "mask"
    /\ LET m == Mask(geom, Disk(tif_paths[i]))
       IN  CASE m.exc = "none" ->
                  /\ out_img' = m.img
                  /\ log' = Append(log, Ev("clip", i))
                  /\ pc' = "accum"
                  /\ UNCHANGED <<src, result>>
             [] m.exc = "ValueError" ->
                  /\ src' = src \ {i}
                  /\ log' = log \o <<Ev("clip", i), Ev("clip_skip", i), Ev("close", i)>>
                  /\ pc' = "for"
                  /\ UNCHANGED <<out_img, result>>
             [] OTHER ->
                  /\ result' = Raise(m.exc, "read")
                  /\ src' = src \ {i}
                  /\ log' = log \o <<Ev("clip", i), Ev("close", i)>>
                  /\ pc' = "done"
                  /\ UNCHANGED out_img
    /\ UNCHANGED <<rest, args, i, geom, total_pop, any_overlap>>

\* Mutant of Accumulate: the tile's sum is assigned, not added.
AccumulateOverwrites ==
    /\ pc = "accum"
    /\ any_overlap' = TRUE
    /\ total_pop' = ValidSum(out_img, Disk(tif_paths[i]))
    /\ src' = src \ {i}
    /\ log' = log \o <<Ev("add", i), Ev("close", i)>>
    /\ pc' = "for"
    /\ UNCHANGED <<rest, args, i, geom, out_img, result>>

\* Lines 51-56: the flag, the valid cells' sum, and the end of the with block.
Accumulate ==
    /\ pc = "accum"
    /\ any_overlap' = TRUE
    /\ total_pop' = FAdd(total_pop, ValidSum(out_img, Disk(tif_paths[i])))
    /\ src' = src \ {i}
    /\ log' = log \o <<Ev("add", i), Ev("close", i)>>
    /\ pc' = "for"
    /\ UNCHANGED <<rest, args, i, geom, out_img, result>>

\* Mutant of FinishResult: the flag is not checked.
FinishResultUnchecked(any, total) == Return(total)

\* Mutant of FinishResult: success is decided by the total, not by the flag.
FinishResultByMagnitude(any, total) ==
    IF total = 0 THEN NoOverlapError ELSE Return(total)

\* Lines 58-61: raise when no tile was clipped, else return the total.
FinishResult(any, total) == IF ~any THEN NoOverlapError ELSE Return(total)

Finish ==
    /\ pc = "end"
    /\ result' = FinishResult(any_overlap, total_pop)
    /\ pc' = "done"
    /\ UNCHANGED <<rest, args, i, src, geom, out_img, total_pop, any_overlap, log>>

Next ==
    \/ ForNext
    \/ ForExit
    \/ Open
    \/ CheckCRS
    \/ MakeGeom
    \/ BBox
    \/ Clip
    \/ Accumulate
    \/ Finish

Spec == Init /\ [][Next]_vars

\* The same call on the tiles of ScenarioPaths.
InitScenario ==
    /\ tif_paths \in ScenarioSeqs
    /\ lat \in Lats
    /\ lon \in Lons
    /\ buffer_m \in Radii
    /\ pc = "for"
    /\ i = 0
    /\ src = {}
    /\ geom = Buffer([x |-> 0, y |-> 0], 0)
    /\ out_img = << >>
    /\ total_pop = 0
    /\ any_overlap = FALSE
    /\ result = Running
    /\ log = << >>
    /\ calls = Idle /\ retry = Idle /\ san = Idle /\ tool = Idle /\ maps = Idle /\ LaterIdle

SpecScenario == InitScenario /\ [][Next]_vars

\* ------------------------------------------- the call as a function

\* Mutant of TileStep: the flag says whether the tile at hand was clipped,
\* so a skipped tile clears it.
TileStepFlagOfLastTile(st, p, la, lo, r) ==
    LET t == Disk(p)
        g == Buffer(Transform(t.crs, lo, la), r)
        m == Mask(g, t)
    IN  IF st.result # Running THEN st
        ELSE IF ~t.opens THEN [st EXCEPT !.result = OpenError]
        ELSE IF t.crs = NoCRS THEN [st EXCEPT !.result = MissingCRSError]
        ELSE IF BBoxSkip(g, t) THEN [st EXCEPT !.any = FALSE]
        ELSE IF m.exc = "ValueError" THEN [st EXCEPT !.any = FALSE]
        ELSE IF m.exc # "none" THEN [st EXCEPT !.result = Raise(m.exc, "read")]
        ELSE [st EXCEPT !.any = TRUE, !.total = FAdd(st.total, ValidSum(m.img, t))]

\* Lines 24-56 for one tile: what the iteration does to the total and the
\* flag, or the error that leaves the function.
TileStep(st, p, la, lo, r) ==
    LET t == Disk(p)
        g == Buffer(Transform(t.crs, lo, la), r)
        m == Mask(g, t)
    IN  IF st.result # Running THEN st
        ELSE IF ~t.opens THEN [st EXCEPT !.result = OpenError]
        ELSE IF t.crs = NoCRS THEN [st EXCEPT !.result = MissingCRSError]
        ELSE IF BBoxSkip(g, t) THEN st
        ELSE IF m.exc = "ValueError" THEN st
        ELSE IF m.exc # "none" THEN [st EXCEPT !.result = Raise(m.exc, "read")]
        ELSE [st EXCEPT !.any = TRUE, !.total = FAdd(st.total, ValidSum(m.img, t))]

\* Lines 20-56: the loop over the first k paths.
RECURSIVE Loop(_, _, _, _, _)
Loop(paths, la, lo, r, k) ==
    IF k = 0 THEN [total |-> 0, any |-> FALSE, result |-> Running]
    ELSE TileStep(Loop(paths, la, lo, r, k - 1), paths[k], la, lo, r)

\* Lines 14-61: what pop_within_buffer(tif_paths, lat, lon, buffer_m) returns
\* or raises.
PopWithinBuffer(paths, la, lo, r) ==
    LET st == Loop(paths, la, lo, r, Len(paths))
    IN  IF st.result # Running THEN st.result ELSE FinishResult(st.any, st.total)

\* The state machine and the function are the same call.
StepwiseIsFunction ==
    pc = "done" => result = PopWithinBuffer(tif_paths, lat, lon, buffer_m)

\* pop_within_buffer is not running: the other programs are modelled.
PopIdle ==
    /\ tif_paths = << >>
    /\ lat = 0
    /\ lon = 0
    /\ buffer_m = 0
    /\ pc = "idle"
    /\ i = 0
    /\ src = {}
    /\ geom = Buffer([x |-> 0, y |-> 0], 0)
    /\ out_img = << >>
    /\ total_pop = 0
    /\ any_overlap = FALSE
    /\ result = Running
    /\ log = << >>

\* ------------------- Part 2: invocations of pop_within_buffer side by side

\* The number of invocations that run at the same time.
MaxCalls == 2

CallIds == 1..MaxCalls

\* The arguments the concurrent invocations are given.
ConcPaths == {<<"west.tif", "east.tif">>, <<"east.tif", "west.tif">>,
              <<"west.tif", "corrupt.tif">>, <<"utm.tif">>}
ConcLons == {1, 2}
ConcRadii == {4}

\* Lines 14-21: the frame of an invocation, its arguments and locals.
Frame(paths, lo, r) ==
    [tif_paths |-> paths, lat |-> 0, lon |-> lo, buffer_m |-> r,
     pc |-> "for", i |-> 0, src |-> {}, data_sum |-> 0,
     total_pop |-> 0, any_overlap |-> FALSE, result |-> Running]

\* Mutant of TotalPop: total_pop is one module-level name; every invocation
\* reads the one of the first.
TotalPopGlobal(c) == calls[1].total_pop

\* Line 56: the total_pop that the += of invocation c reads, its own local.
TotalPop(c) == calls[c].total_pop

InitConcurrent ==
    /\ PopIdle
    /\ calls \in [CallIds -> {Frame(ps, lo, r) : ps \in ConcPaths, lo \in ConcLons, r \in ConcRadii}]
    /\ retry = Idle /\ san = Idle /\ tool = Idle /\ maps = Idle /\ LaterIdle

\* Line 23 of invocation c: the next path, or the end of the loop.
CForNext(c) ==
    /\ calls[c].pc = "for"
    /\ calls[c].i < Len(calls[c].tif_paths)
    /\ calls' = [calls EXCEPT ![c].i = @ + 1, ![c].pc = "tile"]
    /\ UNCHANGED <<popvars, retry, san, tool, maps, later>>

CForExit(c) ==
    /\ calls[c].pc = "for"
    /\ calls[c].i = Len(calls[c].tif_paths)
    /\ calls' = [calls EXCEPT ![c].pc = "end"]
    /\ UNCHANGED <<popvars, retry, san, tool, maps, later>>

\* Lines 24-55 of invocation c: open, CRS check, buffer, bbox test, clip
\* and the sum of the valid cells; the dataset stays open for line 56.
CTile(c) ==
    LET f == calls[c]
        t == Disk(f.tif_paths[f.i])
        g == Buffer(Transform(t.crs, f.lon, f.lat), f.buffer_m)
        m == Mask(g, t)
    IN  /\ f.pc = "tile"
        /\ calls' = [calls EXCEPT ![c] =
              IF ~t.opens THEN [f EXCEPT !.pc = "done", !.result = OpenError]
              ELSE IF t.crs = NoCRS
                   THEN [f EXCEPT !.pc = "done", !.result = MissingCRSError]
              ELSE IF BBoxSkip(g, t) \/ m.exc = "ValueError"
                   THEN [f EXCEPT !.pc = "for"]
              ELSE IF m.exc # "none"
                   THEN [f EXCEPT !.pc = "done", !.result = Raise(m.exc, "read")]
              ELSE [f EXCEPT !.pc = "add", !.src = {f.i}, !.any_overlap = TRUE,
                             !.data_sum = ValidSum(m.img, t)]]
        /\ UNCHANGED <<popvars, retry, san, tool, maps, later>>

\* Line 56 of invocation c: total_pop += float(data[valid].sum()), and the
\* with block closes the dataset.
CAdd(c) ==
    /\ calls[c].pc = "add"
    /\ calls' = [calls EXCEPT ![c].total_pop = FAdd(TotalPop(c), calls[c].data_sum),
                              ![c].src = {},
                              ![c].pc = "for"]
    /\ UNCHANGED <<popvars, retry, san, tool, maps, later>>

\* Lines 58-61 of invocation c.
CFinish(c) ==
    /\ calls[c].pc = "end"
    /\ calls' = [calls EXCEPT ![c].pc = "done",
                              ![c].result = FinishResult(calls[c].any_overlap,
                                                         calls[c].total_pop)]
    /\ UNCHANGED <<popvars, retry, san, tool, maps, later>>

\* Any invocation takes its next step: every interleaving.
NextConcurrent ==
    \E c \in CallIds :
        \/ CForNext(c)
        \/ CForExit(c)
        \/ CTile(c)
        \/ CAdd(c)
        \/ CFinish(c)

SpecConcurrent == InitConcurrent /\ [][NextConcurrent]_vars

\* ------- Part 3: ua_trends_by_region_year.py, _safe_interest_by_region

\* Line 106.
MAX_RETRIES == 6
\* Line 149: the cap of the backoff, in seconds.
BackoffCap == 60

\* What the two pytrends calls of an attempt can do: raise an Exception of
\* some class, or give the data frame (with rows, or empty).
RequestErrors == {"ResponseError", "ConnectionError"}
Frames == {"rows", "empty"}
\* random.random() * 2, in half seconds: a value in [0, 2).
Jitter == {0, 3}

\* Mutant of Range: the loop runs one attempt more.
RangeOneMore == [k \in 1..(MAX_RETRIES + 1) |-> k]

\* Line 137: range(1, MAX_RETRIES + 1).
Range == [k \in 1..MAX_RETRIES |-> k]

\* Mutant of Backoff: the backoff grows by two seconds an attempt.
BackoffLinear(attempt, u) == Min(2 * BackoffCap, 2 * (2 * attempt) + u)

\* Line 149: min(60, (2 ** attempt) + random.random() * 2), in half seconds.
Backoff(attempt, u) == Min(2 * BackoffCap, 2 * Pow2(attempt) + u)

notRetry == <<popvars, calls, san, tool, maps, later>>

\* Line 135: the call starts. it: the position of the for loop in the
\* range; outcomes: what each attempt came to; slept: the sleeps made.
InitRetry ==
    /\ PopIdle
    /\ calls = Idle /\ san = Idle /\ tool = Idle /\ maps = Idle /\ LaterIdle
    /\ retry = [pc |-> "for", it |-> 0, attempt |-> 0, last_err |-> "None",
                outcomes |-> << >>, slept |-> << >>, result |-> Running]

\* Line 137: the loop takes the next attempt number.
RetryForNext ==
    /\ retry.pc = "for"
    /\ retry.it < Len(Range)
    /\ retry' = [retry EXCEPT !.it = @ + 1, !.attempt = Range[retry.it + 1],
                              !.pc = "build"]
    /\ UNCHANGED notRetry

\* Line 137: the range is used up.
RetryForExit ==
    /\ retry.pc = "for"
    /\ retry.it = Len(Range)
    /\ retry' = [retry EXCEPT !.pc = "raise"]
    /\ UNCHANGED notRetry

\* Line 139: build_payload; an Exception goes to line 147.
BuildPayload ==
    /\ retry.pc = "build"
    /\ \/ retry' = [retry EXCEPT !.pc = "request"]
       \/ \E e \in RequestErrors :
              retry' = [retry EXCEPT !.pc = "backoff", !.last_err = e,
                                     !.outcomes = Append(@, "failed")]
    /\ UNCHANGED notRetry

\* Lines 140-145: interest_by_region and the return of its frame; an
\* Exception goes to line 147.
InterestByRegion ==
    /\ retry.pc = "request"
    /\ \/ \E df \in Frames :
              retry' = [retry EXCEPT !.pc = "done", !.result = Return(df),
                                     !.outcomes = Append(@, "succeeded")]
       \/ \E e \in RequestErrors :
              retry' = [retry EXCEPT !.pc = "backoff", !.last_err = e,
                                     !.outcomes = Append(@, "failed")]
    /\ UNCHANGED notRetry

\* Lines 149-156: the backoff is computed, reported and slept.
SleepBackoff ==
    /\ retry.pc = "backoff"
    /\ \E u \in Jitter :
           retry' = [retry EXCEPT !.pc = "for",
                                  !.slept = Append(@, Backoff(retry.attempt, u))]
    /\ UNCHANGED notRetry

\* Line 158.
RaiseFailed ==
    /\ retry.pc = "raise"
    /\ retry' = [retry EXCEPT !.pc = "done",
                              !.result = Raise("RuntimeError", retry.last_err)]
    /\ UNCHANGED notRetry

NextRetry ==
    \/ RetryForNext
    \/ RetryForExit
    \/ BuildPayload
    \/ InterestByRegion
    \/ SleepBackoff
    \/ RaiseFailed

\* Every step is a library call that comes back (the requests of pytrends
\* have timeouts, a sleep is at most BackoffCap seconds long), so a step
\* that can be taken is taken.
SpecRetry == InitRetry /\ [][NextRetry]_vars /\ WF_vars(NextRetry)

\* ------------------------- Part 4: to_kml_shp.py, sanitize_filename

\* The longest name that is sanitized.
MaxName == 3

\* A string is a sequence of characters. The characters that names are
\* made of: an ASCII letter, an ASCII digit, the underscore, a blank, a
\* punctuation mark and a letter outside ASCII.
Chars == {"a", "7", "_", " ", "-", "é"}
Names == UNION {[1..n -> Chars] : n \in 0..MaxName}

\* str.strip() takes whitespace away.
Spaces == {" "}

\* Mutant of WordChars: the pattern is compiled with re.ASCII.
WordCharsASCII == {"a", "7", "_"}

\* \w of a str pattern: the Unicode word characters, that is every letter
\* and digit of any script and the underscore.
WordChars == {"a", "7", "_", "é"}

\* s.strip(chars): s without its leading and trailing characters in cs.
RECURSIVE LStrip(_, _)
LStrip(s, cs) == IF s # << >> /\ Head(s) \in cs THEN LStrip(Tail(s), cs) ELSE s
RECURSIVE RStrip(_, _)
RStrip(s, cs) ==
    IF s # << >> /\ s[Len(s)] \in cs THEN RStrip(SubSeq(s, 1, Len(s) - 1), cs) ELSE s
Strip(s, cs) == RStrip(LStrip(s, cs), cs)

\* re.sub of a pattern [class]+ by "_": every maximal run of characters of
\* the class cs becomes one underscore.
RECURSIVE SubRuns(_, _)
SubRuns(s, cs) ==
    IF s = << >> THEN << >>
    ELSE IF Head(s) \in cs THEN <<"_">> \o SubRuns(LStrip(s, cs), cs)
    ELSE <<Head(s)>> \o SubRuns(Tail(s), cs)

\* Line 48: the fallback name.
Export == <<"e", "x", "p", "o", "r", "t">>

notSan == <<popvars, calls, retry, tool, maps, later>>

\* Line 35: the call starts.
InitSanitize ==
    /\ PopIdle
    /\ calls = Idle /\ retry = Idle /\ tool = Idle /\ maps = Idle /\ LaterIdle
    /\ \E s \in Names : san = [pc |-> "empty", input |-> s, name |-> s, result |-> << >>]

\* Lines 40-41: if not name: return "export".
SanEmpty ==
    /\ san.pc = "empty"
    /\ san' = IF san.name = << >>
              THEN [san EXCEPT !.pc = "done", !.result = Export]
              ELSE [san EXCEPT !.pc = "strip"]
    /\ UNCHANGED notSan

\* Line 42: name = name.strip().
SanStrip ==
    /\ san.pc = "strip"
    /\ san' = [san EXCEPT !.pc = "sub", !.name = Strip(san.name, Spaces)]
    /\ UNCHANGED notSan

\* Line 44: name = re.sub(r"[^\w]+", "_", name).
SanSubNonWord ==
    /\ san.pc = "sub"
    /\ san' = [san EXCEPT !.pc = "collapse", !.name = SubRuns(san.name, Chars \ WordChars)]
    /\ UNCHANGED notSan

\* Line 46: name = re.sub(r"_+", "_", name).
SanCollapse ==
    /\ san.pc = "collapse"
    /\ san' = [san EXCEPT !.pc = "strip_", !.name = SubRuns(san.name, {"_"})]
    /\ UNCHANGED notSan

\* Line 47: name = name.strip("_").
SanStripUnderscores ==
    /\ san.pc = "strip_"
    /\ san' = [san EXCEPT !.pc = "return", !.name = Strip(san.name, {"_"})]
    /\ UNCHANGED notSan

\* Line 48: return name or "export".
SanReturn ==
    /\ san.pc = "return"
    /\ san' = [san EXCEPT !.pc = "done",
                          !.result = IF san.name # << >> THEN san.name ELSE Export]
    /\ UNCHANGED notSan

NextSanitize ==
    \/ SanEmpty
    \/ SanStrip
    \/ SanSubNonWord
    \/ SanCollapse
    \/ SanStripUnderscores
    \/ SanReturn

SpecSanitize == InitSanitize /\ [][NextSanitize]_vars

\* ------------------------------------ Part 5: to_kml_shp.py, main

\* What arcpy.GetParameter gives for a checkbox: None, a bool or a value
\* whose str() is the text s.
PNone == [t |-> "none", b |-> FALSE, s |-> ""]
PBool(b) == [t |-> "bool", b |-> b, s |-> ""]
PText(s) == [t |-> "text", b |-> FALSE, s |-> s]
ParamValues == {PNone, PBool(TRUE), PBool(FALSE), PText(" Yes"), PText("false"), PText(" ")}

\* str(v).strip().lower() of the texts above.
StripLower(s) ==
    CASE s = " Yes" -> "yes"
      [] s = " " -> ""
      [] OTHER -> s

\* Lines 23-32.
get_bool_param(v, default) ==
    IF v.t = "none" THEN default
    ELSE IF v.t = "bool" THEN v.b
    ELSE IF StripLower(v.s) = "" THEN default
    ELSE StripLower(v.s) \in {"true", "t", "1", "yes", "y"}

\* The texts of the layer and folder parameters, the folder that
\* infer_output_folder finds, and the directories that exist.
LayerTexts == {"", "roads"}
FolderTexts == {"", " ", " C:/out ", "C:/gone"}
Inferred == {"C:/scratch", "C:/tmp"}
Dirs == {"C:/out", "C:/scratch", "C:/tmp"}

\* out_folder.strip() of the texts above.
StripText(s) ==
    CASE s = " " -> ""
      [] s = " C:/out " -> "C:/out"
      [] OTHER -> s

notTool == <<popvars, calls, retry, san, maps, later>>

\* The tool is started with its four parameters. ran: the exports called,
\* in order; failed: those that raised.
InitTool ==
    /\ PopIdle
    /\ calls = Idle /\ retry = Idle /\ san = Idle /\ maps = Idle /\ LaterIdle
    /\ \E layer \in LayerTexts, p1 \in ParamValues, p2 \in ParamValues,
          folder \in FolderTexts :
           tool = [pc |-> "params", params |-> <<layer, p1, p2, folder>>,
                   input_layer |-> "", do_shp |-> FALSE, do_kmz |-> FALSE,
                   out_folder |-> "", ran |-> << >>, failed |-> {},
                   result |-> Running]

\* Lines 159-164.
ToolParams ==
    /\ tool.pc = "params"
    /\ tool' = [tool EXCEPT !.pc = "check",
                            !.input_layer = tool.params[1],
                            !.do_shp = get_bool_param(tool.params[2], FALSE),
                            !.do_kmz = get_bool_param(tool.params[3], FALSE),
                            !.out_folder = tool.params[4]]
    /\ UNCHANGED notTool

\* Lines 166-169.
ToolCheck ==
    /\ tool.pc = "check"
    /\ tool' = IF tool.input_layer = ""
               THEN [tool EXCEPT !.pc = "done",
                        !.result = Raise("ValueError", "Input Feature Layer is required.")]
               ELSE IF ~tool.do_shp /\ ~tool.do_kmz
               THEN [tool EXCEPT !.pc = "done",
                        !.result = Raise("ValueError", "Select at least one output option")]
               ELSE [tool EXCEPT !.pc = "describe"]
    /\ UNCHANGED notTool

\* Lines 171-180: Describe raises for a layer it cannot find; else the
\* folder is the stripped parameter or, without one, the inferred folder.
ToolDescribe ==
    /\ tool.pc = "describe"
    /\ \/ tool' = [tool EXCEPT !.pc = "done", !.result = Raise("OSError", "Describe")]
       \/ \E inferred \in Inferred :
              tool' = [tool EXCEPT !.pc = "folder",
                          !.out_folder = IF StripText(tool.out_folder) # ""
                                         THEN StripText(tool.out_folder)
                                         ELSE inferred]
    /\ UNCHANGED notTool

\* Lines 182-187.
ToolFolder ==
    /\ tool.pc = "folder"
    /\ tool' = IF tool.out_folder \notin Dirs
               THEN [tool EXCEPT !.pc = "done",
                        !.result = Raise("ValueError", "Output folder does not exist")]
               ELSE [tool EXCEPT !.pc = "shp"]
    /\ UNCHANGED notTool

\* Lines 189-191: export_shp returns the path or raises.
ToolShp ==
    /\ tool.pc = "shp"
    /\ IF tool.do_shp
       THEN \/ tool' = [tool EXCEPT !.pc = "kmz", !.ran = Append(@, "shp")]
            \/ \E e \in {"ExecuteError", "RuntimeError"} :
                   tool' = [tool EXCEPT !.pc = "done", !.ran = Append(@, "shp"),
                                        !.failed = @ \cup {"shp"},
                                        !.result = Raise(e, "export_shp")]
       ELSE tool' = [tool EXCEPT !.pc = "kmz"]
    /\ UNCHANGED notTool

\* Mutant of ToolKmz: elif do_kmz, the KMZ is made only without the SHP.
ToolKmzElif ==
    /\ tool.pc = "kmz"
    /\ IF tool.do_kmz /\ ~tool.do_shp
       THEN \/ tool' = [tool EXCEPT !.pc = "done", !.ran = Append(@, "kmz"),
                                    !.result = Return("exported")]
            \/ \E e \in {"ExecuteError", "RuntimeError"} :
                   tool' = [tool EXCEPT !.pc = "done", !.ran = Append(@, "kmz"),
                                        !.failed = @ \cup {"kmz"},
                                        !.result = Raise(e, "export_kmz")]
       ELSE tool' = [tool EXCEPT !.pc = "done", !.result = Return("exported")]
    /\ UNCHANGED notTool

\* Lines 193-195: export_kmz returns the path or raises; main returns.
ToolKmz ==
    /\ tool.pc = "kmz"
    /\ IF tool.do_kmz
       THEN \/ tool' = [tool EXCEPT !.pc = "done", !.ran = Append(@, "kmz"),
                                    !.result = Return("exported")]
            \/ \E e \in {"ExecuteError", "RuntimeError"} :
                   tool' = [tool EXCEPT !.pc = "done", !.ran = Append(@, "kmz"),
                                        !.failed = @ \cup {"kmz"},
                                        !.result = Raise(e, "export_kmz")]
       ELSE tool' = [tool EXCEPT !.pc = "done", !.result = Return("exported")]
    /\ UNCHANGED notTool

NextTool ==
    \/ ToolParams
    \/ ToolCheck
    \/ ToolDescribe
    \/ ToolFolder
    \/ ToolShp
    \/ ToolKmz

SpecTool == InitTool /\ [][NextTool]_vars

\* ----------------- Part 6: Map_automation_planting.py, produce_maps

\* The most features the cursor gives.
MaxFeatures == 2

\* Line 74: step = 5000.0.
Step == 5000

\* A scale is counted in halves, so that 4999.5 is the integer 9999. The
\* scales the camera takes after setExtent: below, at and above multiples
\* of the step.
RawScales == {1, 9999, 10000, 10001, 20000, 24690}

\* A row of the cursor: whether it has a geometry with an extent, and the
\* scale the camera takes when set to that extent.
Features == {[shape |-> FALSE, raw |-> 0]} \cup {[shape |-> TRUE, raw |-> x] : x \in RawScales}
Cursors == UNION {[1..n -> Features] : n \in 0..MaxFeatures}
\* number_of_maps: 0 for no limit.
Limits == {-1, 0, 1, 2}

\* Mutant of RoundedScale: round() in place of math.ceil().
RoundedScaleNearest(raw) == ((raw + Step) \div (2 * Step)) * (2 * Step)

\* Line 75: math.ceil(raw_scale / step) * step, in halves.
RoundedScale(raw) == CeilDiv(raw, 2 * Step) * (2 * Step)

notMaps == <<popvars, calls, retry, san, tool, later>>

\* Lines 13-35: the call starts; k is the cursor's position, exported the
\* maps written (row, raw scale and applied scale).
InitMaps ==
    /\ PopIdle
    /\ calls = Idle /\ retry = Idle /\ san = Idle /\ tool = Idle /\ LaterIdle
    /\ \E rows \in Cursors, n \in Limits :
           maps = [pc |-> "cursor", rows |-> rows, number_of_maps |-> n,
                   count |-> 0, k |-> 0, raw_scale |-> 0, camera_scale |-> 0,
                   exported |-> << >>]

\* Line 38: the cursor gives its next row, or none.
MapsCursor ==
    /\ maps.pc = "cursor"
    /\ maps' = IF maps.k < Len(maps.rows)
               THEN [maps EXCEPT !.k = @ + 1, !.pc = "limit"]
               ELSE [maps EXCEPT !.pc = "end"]
    /\ UNCHANGED notMaps

\* Mutant of MapsLimit: the test is count > number_of_maps.
MapsLimitStrict ==
    /\ maps.pc = "limit"
    /\ maps' = IF maps.number_of_maps # 0 /\ maps.count > maps.number_of_maps
               THEN [maps EXCEPT !.pc = "end"]
               ELSE [maps EXCEPT !.count = @ + 1, !.pc = "geometry"]
    /\ UNCHANGED notMaps

\* Lines 40-45: the limit test, then the count.
MapsLimit ==
    /\ maps.pc = "limit"
    /\ maps' = IF maps.number_of_maps # 0 /\ maps.count >= maps.number_of_maps
               THEN [maps EXCEPT !.pc = "end"]
               ELSE [maps EXCEPT !.count = @ + 1, !.pc = "geometry"]
    /\ UNCHANGED notMaps

\* Lines 47-71: a row without geometry is skipped; else the camera is set
\* to the buffered extent and its scale read.
MapsGeometry ==
    /\ maps.pc = "geometry"
    /\ maps' = IF ~maps.rows[maps.k].shape
               THEN [maps EXCEPT !.pc = "cursor"]
               ELSE [maps EXCEPT !.pc = "scale",
                                 !.raw_scale = maps.rows[maps.k].raw,
                                 !.camera_scale = maps.rows[maps.k].raw]
    /\ UNCHANGED notMaps

\* Lines 73-76: the scale is rounded and applied.
MapsScale ==
    /\ maps.pc = "scale"
    /\ maps' = [maps EXCEPT !.pc = "export",
                            !.camera_scale = RoundedScale(maps.raw_scale)]
    /\ UNCHANGED notMaps

\* Lines 78-110: the texts are set and the layout exported.
MapsExport ==
    /\ maps.pc = "export"
    /\ maps' = [maps EXCEPT !.pc = "cursor",
                            !.exported = Append(@, [row |-> maps.k,
                                                    raw |-> maps.raw_scale,
                                                    scale |-> maps.camera_scale])]
    /\ UNCHANGED notMaps

\* Lines 112-115.
MapsEnd ==
    /\ maps.pc = "end"
    /\ maps' = [maps EXCEPT !.pc = "done"]
    /\ UNCHANGED notMaps

NextMaps ==
    \/ MapsCursor
    \/ MapsLimit
    \/ MapsGeometry
    \/ MapsScale
    \/ MapsExport
    \/ MapsEnd

SpecMaps == InitMaps /\ [][NextMaps]_vars

\* --------------------------------- Part 7: to_kml_shp.py, export_kmz

\* The exceptions the arcpy tools and the file operations raise.
KmzErrors == {"ExecuteError", "OSError"}

notKmz == <<popvars, calls, retry, san, tool, maps, trends, driver>>

\* Lines 102-108: the call starts. overwrite: arcpy.env.overwriteOutput;
\* dest, local: whether a file is at out_kmz and at local_kmz; tmp_layer:
\* whether the layer tmp_export_layer exists; work_dir: "none" before mkdtemp,
\* then "exists" or "removed"; rmtree: what the removal came to; pending:
\* what the try block left with; trace: the steps taken.
InitKmz ==
    /\ PopIdle
    /\ calls = Idle /\ retry = Idle /\ san = Idle /\ tool = Idle /\ maps = Idle
    /\ trends = Idle /\ driver = Idle
    /\ \E ow \in BOOLEAN, d \in BOOLEAN, l \in BOOLEAN, t \in BOOLEAN :
           kmz = [pc |-> "mkdtemp", overwrite |-> ow, dest |-> d, local |-> l,
                  tmp_layer |-> t,
                  work_dir |-> "none", rmtree |-> "not called",
                  pending |-> Running, result |-> Running, trace |-> << >>]

\* Lines 110-115: mkdtemp makes the working directory, or raises before
\* the try block is entered.
KmzMkdtemp ==
    /\ kmz.pc = "mkdtemp"
    /\ \/ kmz' = [kmz EXCEPT !.pc = "layer", !.work_dir = "exists"]
       \/ kmz' = [kmz EXCEPT !.pc = "done", !.result = Raise("OSError", "mkdtemp")]
    /\ UNCHANGED notKmz

\* Lines 118-123: a layer left over is deleted, the temporary layer is
\* made, saved as .lyrx and deleted; an exception of the first two leaves
\* the layer as it was, one of the last two leaves the new layer.
KmzLayerFile ==
    /\ kmz.pc = "layer"
    /\ \/ kmz' = [kmz EXCEPT !.pc = "direct", !.tmp_layer = FALSE,
                             !.trace = Append(@, "lyrx")]
       \/ \E e \in KmzErrors, made \in BOOLEAN :
              kmz' = [kmz EXCEPT !.pc = "finally", !.pending = Raise(e, "layer file"),
                                 !.tmp_layer = IF made THEN TRUE ELSE @,
                                 !.trace = Append(@, "lyrx raised")]
    /\ UNCHANGED notKmz

\* Lines 126-135: an old file is removed and LayerToKML writes to the
\* destination; it may come back without a file; any Exception of the two
\* goes to the fallback.
KmzDirect ==
    /\ kmz.pc = "direct"
    /\ \E rm \in (IF kmz.dest /\ kmz.overwrite THEN {"removed", "raised"} ELSE {"skipped"}) :
           IF rm = "raised"
           THEN kmz' = [kmz EXCEPT !.pc = "fallback", !.trace = Append(@, "direct raised")]
           ELSE LET d == IF rm = "removed" THEN FALSE ELSE kmz.dest
                IN  \/ kmz' = [kmz EXCEPT !.pc = "exists", !.dest = TRUE,
                                          !.trace = Append(@, "direct")]
                    \/ kmz' = [kmz EXCEPT !.pc = "exists", !.dest = d,
                                          !.trace = Append(@, "direct")]
                    \/ kmz' = [kmz EXCEPT !.pc = "fallback", !.dest = d,
                                          !.trace = Append(@, "direct raised")]
    /\ UNCHANGED notKmz

\* Lines 136-143: an old local file is removed, LayerToKML writes to the
\* local temp folder and copy2 copies the file to the destination; an
\* exception of any of them leaves the try block.
KmzFallback ==
    /\ kmz.pc = "fallback"
    /\ \/ kmz' = [kmz EXCEPT !.pc = "exists", !.dest = TRUE, !.local = TRUE,
                             !.trace = Append(@, "fallback")]
       \/ \E e \in KmzErrors, l \in {kmz.local, TRUE} :
              kmz' = [kmz EXCEPT !.pc = "finally", !.pending = Raise(e, "fallback"),
                                 !.local = l,
                                 !.trace = Append(@, "fallback raised")]
    /\ UNCHANGED notKmz

\* Lines 145-148.
KmzExists ==
    /\ kmz.pc = "exists"
    /\ kmz' = [kmz EXCEPT !.pc = "finally",
                          !.pending = IF ~kmz.dest
                                      THEN Raise("RuntimeError", "output not found")
                                      ELSE Return("out_kmz")]
    /\ UNCHANGED notKmz

\* Mutant of KmzFinally: the removal follows the try block without a
\* finally, so an exception passes it by.
KmzCleanupAfterTry ==
    /\ kmz.pc = "finally"
    /\ IF kmz.pending.kind = "raise"
       THEN kmz' = [kmz EXCEPT !.pc = "done", !.result = kmz.pending]
       ELSE \/ kmz' = [kmz EXCEPT !.pc = "done", !.result = kmz.pending,
                                  !.work_dir = "removed", !.rmtree = "removed"]
            \/ kmz' = [kmz EXCEPT !.pc = "done", !.result = kmz.pending,
                                  !.rmtree = "failed"]
    /\ UNCHANGED notKmz

\* Lines 150-154: shutil.rmtree(work_dir, ignore_errors=True) removes the
\* directory, or fails to and says nothing; then the return or the
\* exception of the try block takes place.
KmzFinally ==
    /\ kmz.pc = "finally"
    /\ \/ kmz' = [kmz EXCEPT !.pc = "done", !.result = kmz.pending,
                             !.work_dir = "removed", !.rmtree = "removed"]
       \/ kmz' = [kmz EXCEPT !.pc = "done", !.result = kmz.pending,
                             !.rmtree = "failed"]
    /\ UNCHANGED notKmz

NextKmz ==
    \/ KmzMkdtemp
    \/ KmzLayerFile
    \/ KmzDirect
    \/ KmzFallback
    \/ KmzExists
    \/ KmzFinally

SpecKmz == InitKmz /\ [][NextKmz]_vars

\* ------------------- Part 8: ua_trends_by_region_year.py, main

\* The number of word pairs in WORD_PAIRS and of years from START_YEAR to
\* END_YEAR (scaled down).
MaxPairs == 2
MaxYears == 2

\* Line 105.
SLEEP_BETWEEN_REQUESTS_SEC == <<10, 20>>

\* Lines 120-121: random.uniform(rng[0], rng[1]), its two ends.
SleepJitter(rng) == {rng[1], rng[2]}

\* What _safe_interest_by_region gives main: a frame with rows, an empty
\* frame or None; or it raises RuntimeError.
TrendFrames == {"rows", "empty", "None"}

TEv(ev, p, y, x) == [ev |-> ev, pair |-> p, year |-> y, x |-> x]

notTrends == <<popvars, calls, retry, san, tool, maps, kmz, driver>>

\* Lines 164-169: main starts. pair_id and year are the positions of the
\* two loops; log: the requests started and ended and the sleeps, in order.
InitTrends ==
    /\ PopIdle
    /\ calls = Idle /\ retry = Idle /\ san = Idle /\ tool = Idle /\ maps = Idle
    /\ kmz = Idle /\ driver = Idle
    /\ trends = [pc |-> "pairs", pair_id |-> 0, year |-> 0, df |-> "None",
                 results |-> 0, last_sleep |-> 0, log |-> << >>, result |-> Running]

\* Lines 170-172: the outer loop takes the next word pair, or ends.
TrendsNextPair ==
    /\ trends.pc = "pairs"
    /\ trends' = IF trends.pair_id < MaxPairs
                 THEN [trends EXCEPT !.pair_id = @ + 1, !.year = 0, !.pc = "years"]
                 ELSE [trends EXCEPT !.pc = "write"]
    /\ UNCHANGED notTrends

\* Lines 174-175: the inner loop takes the next year, or ends.
TrendsNextYear ==
    /\ trends.pc = "years"
    /\ trends' = IF trends.year < MaxYears
                 THEN [trends EXCEPT !.year = @ + 1, !.pc = "request"]
                 ELSE [trends EXCEPT !.pc = "pairs"]
    /\ UNCHANGED notTrends

\* Lines 178-186: the request of the pair and year, retries included; a
\* RuntimeError of it ends main.
TrendsRequest ==
    /\ trends.pc = "request"
    /\ LET started == Append(trends.log, TEv("start", trends.pair_id, trends.year, ""))
       IN  \/ \E df \in TrendFrames :
                  trends' = [trends EXCEPT !.pc = "handle", !.df = df,
                       !.log = Append(started,
                                      TEv("end", trends.pair_id, trends.year, df))]
           \/ trends' = [trends EXCEPT !.pc = "done",
                       !.log = Append(started,
                                      TEv("end", trends.pair_id, trends.year, "raised")),
                       !.result = Raise("RuntimeError", "Failed after retries")]
    /\ UNCHANGED notTrends

\* Mutant of TrendsHandle: the empty result is skipped without a sleep.
TrendsHandleSkipsAtOnce ==
    /\ trends.pc = "handle"
    /\ \E d \in SleepJitter(SLEEP_BETWEEN_REQUESTS_SEC) :
           trends' = IF trends.df \in {"None", "empty"}
                     THEN [trends EXCEPT !.pc = "years"]
                     ELSE [trends EXCEPT !.pc = "years", !.results = @ + 1,
                               !.last_sleep = d,
                               !.log = Append(@, TEv("sleep", trends.pair_id,
                                                     trends.year, ""))]
    /\ UNCHANGED notTrends

\* Lines 189-214: an empty result is reported, slept after and skipped;
\* else the rows are appended and the sleep follows.
TrendsHandle ==
    /\ trends.pc = "handle"
    /\ \E d \in SleepJitter(SLEEP_BETWEEN_REQUESTS_SEC) :
           trends' = IF trends.df \in {"None", "empty"}
                     THEN [trends EXCEPT !.pc = "years", !.last_sleep = d,
                               !.log = Append(@, TEv("sleep", trends.pair_id,
                                                     trends.year, ""))]
                     ELSE [trends EXCEPT !.pc = "years", !.results = @ + 1,
                               !.last_sleep = d,
                               !.log = Append(@, TEv("sleep", trends.pair_id,
                                                     trends.year, ""))]
    /\ UNCHANGED notTrends

\* Lines 216-238: the rows are sorted and written.
TrendsWrite ==
    /\ trends.pc = "write"
    /\ trends' = [trends EXCEPT !.pc = "done", !.result = Return("written")]
    /\ UNCHANGED notTrends

NextTrends ==
    \/ TrendsNextPair
    \/ TrendsNextYear
    \/ TrendsRequest
    \/ TrendsHandle
    \/ TrendsWrite

SpecTrends == InitTrends /\ [][NextTrends]_vars

\* ------------- Part 9: fu_population.py, the script under __main__

\* The number of entries of the stadiums dict (scaled down).
MaxStadiums == 3

\* Line 11: RADII_KM (scaled down to the tiles of Disk).
RADII_KM == <<1, 2>>

\* Line 121: buffer_m = radius_km * 1000.0, in model units of 250 m.
BufferM(radius_km) == radius_km * 4

\* Lines 84-118: a value of the stadiums dict is None, as every value in
\* the repository is, or a pair (lat, lon).
NoCoords == [none |-> TRUE, lat |-> 0, lon |-> 0]
Coords(la, lo) == [none |-> FALSE, lat |-> la, lon |-> lo]
StadiumValues == {NoCoords, Coords(0, 0), Coords(0, 2), Coords(0, 5)}
\* The dicts, as sequences in insertion order; the key is the position.
Stadiums == [1..MaxStadiums -> StadiumValues]

\* Line 77: what the glob finds.
TifLists == {<< >>, <<"west.tif", "east.tif">>, <<"corrupt.tif", "west.tif">>}

\* The second element of a result tuple: None or the total.
NoTotal == [none |-> TRUE, v |-> 0]
Total(v) == [none |-> FALSE, v |-> v]

\* Line 133: the sort key (x[1] is None, -(x[1] or 0)) and the order of
\* two keys, tuples compared element by element, False before True.
SortKey(x) ==
    <<IF x.total.none THEN 1 ELSE 0, IF x.total.none THEN 0 ELSE -x.total.v>>
KeyLess(a, b) == a[1] < b[1] \/ (a[1] = b[1] /\ a[2] < b[2])

\* Line 133: list.sort is stable: x goes behind every element whose key is
\* not greater than its own.
RECURSIVE InsertByKey(_, _)
InsertByKey(sorted, x) ==
    IF sorted = << >> THEN <<x>>
    ELSE IF KeyLess(SortKey(x), SortKey(Head(sorted)))
         THEN <<x>> \o sorted
         ELSE <<Head(sorted)>> \o InsertByKey(Tail(sorted), x)
RECURSIVE SortResults(_)
SortResults(l) ==
    IF l = << >> THEN << >>
    ELSE InsertByKey(SortResults(SubSeq(l, 1, Len(l) - 1)), l[Len(l)])

\* Line 154: the row of a result.
CsvRow(x) == <<x.name, IF x.total.none THEN "ERROR" ELSE ToString(x.total.v)>>

notDriver == <<popvars, calls, retry, san, tool, maps, kmz, trends>>

\* Lines 64-77: the script starts. ri, si: the positions of the two loops;
\* csvs: the files written, one per radius.
InitDriver ==
    /\ PopIdle
    /\ calls = Idle /\ retry = Idle /\ san = Idle /\ tool = Idle /\ maps = Idle
    /\ kmz = Idle /\ trends = Idle
    /\ \E tifs \in TifLists, st \in Stadiums :
           driver = [pc |-> "tifs", tifs |-> tifs, stadiums |-> st, ri |-> 0, si |-> 0,
                     lat |-> 0, lon |-> 0, results |-> << >>, csvs |-> << >>,
                     result |-> Running]

\* Lines 79-82.
DriverTifs ==
    /\ driver.pc = "tifs"
    /\ driver' = IF driver.tifs = << >>
                 THEN [driver EXCEPT !.pc = "done",
                          !.result = Raise("ValueError", "No .tif files found in the folder.")]
                 ELSE [driver EXCEPT !.pc = "radii"]
    /\ UNCHANGED notDriver

\* Lines 120-123: the next radius, or the end of the script.
DriverNextRadius ==
    /\ driver.pc = "radii"
    /\ driver' = IF driver.ri < Len(RADII_KM)
                 THEN [driver EXCEPT !.ri = @ + 1, !.si = 0, !.results = << >>,
                                     !.pc = "stadiums"]
                 ELSE [driver EXCEPT !.pc = "done", !.result = Return("exit")]
    /\ UNCHANGED notDriver

\* Line 124: the next item is unpacked into name, (lat, lon); a value that
\* is None cannot be unpacked and the TypeError, outside the try, ends the
\* script.
DriverNextStadium ==
    /\ driver.pc = "stadiums"
    /\ driver' =
         IF driver.si = Len(driver.stadiums) THEN [driver EXCEPT !.pc = "sort"]
         ELSE LET v == driver.stadiums[driver.si + 1]
              IN  IF v.none
                  THEN [driver EXCEPT !.pc = "done", !.si = @ + 1,
                           !.result = Raise("TypeError",
                                            "cannot unpack non-iterable NoneType object")]
                  ELSE [driver EXCEPT !.pc = "call", !.si = @ + 1,
                                      !.lat = v.lat, !.lon = v.lon]
    /\ UNCHANGED notDriver

\* Lines 125-130: the total is appended, or None after any Exception.
DriverCall ==
    /\ driver.pc = "call"
    /\ LET res == PopWithinBuffer(driver.tifs, driver.lat, driver.lon,
                                  BufferM(RADII_KM[driver.ri]))
           total == IF res.kind = "return" THEN Total(res.value) ELSE NoTotal
       IN  driver' = [driver EXCEPT !.pc = "stadiums",
                         !.results = Append(@, [name |-> driver.si, total |-> total])]
    /\ UNCHANGED notDriver

\* Line 133.
DriverSort ==
    /\ driver.pc = "sort"
    /\ driver' = [driver EXCEPT !.pc = "csv", !.results = SortResults(@)]
    /\ UNCHANGED notDriver

\* Lines 135-156: the table is printed and the CSV of the radius written.
DriverCsv ==
    /\ driver.pc = "csv"
    /\ driver' = [driver EXCEPT !.pc = "radii",
                     !.csvs = Append(@, [radius_km |-> RADII_KM[driver.ri],
                                         rows |-> [k \in 1..Len(driver.results) |->
                                                      CsvRow(driver.results[k])]])]
    /\ UNCHANGED notDriver

NextDriver ==
    \/ DriverTifs
    \/ DriverNextRadius
    \/ DriverNextStadium
    \/ DriverCall
    \/ DriverSort
    \/ DriverCsv

SpecDriver == InitDriver /\ [][NextDriver]_vars

\* ================================================================ claims

\* The tile at position k of tif_paths and the buffer in that tile's CRS.
TileAt(k) == Disk(tif_paths[k])
BufferAt(k) == Buffer(Transform(TileAt(k).crs, lon, lat), buffer_m)
Positions == 1..Len(tif_paths)
Logged(ev, k) == \E n \in DOMAIN log : log[n] = Ev(ev, k)

\* The closed bounding boxes of the buffer and of the tile share a point.
RectsMeet(g, t) ==
    /\ Max(g.x - g.r, t.left) <= Min(g.x + g.r, t.left + t.res * Width(t))
    /\ Max(g.y - g.r, t.top - t.res * Height(t)) <= Min(g.y + g.r, t.top)

\* The cells of tile t, 0-based (row, col), and those the buffer g reaches.
Cells(t) == (0..(Height(t) - 1)) \X (0..(Width(t) - 1))
CellValue(t, rc) == t.grid[rc[1] + 1][rc[2] + 1]
TouchedCells(g, t) == {rc \in Cells(t) : Touched(g, t, rc[1], rc[2])}

\* ---- C1
C1_AllDisjoint ==
    \A k \in Positions :
        /\ TileAt(k).opens
        /\ TileAt(k).crs # NoCRS
        /\ ~RectsMeet(BufferAt(k), TileAt(k))

\* C1: when every tile opens and declares a CRS and no tile's bounding box
\* meets the buffer's bounding box, the call ends with the no-overlap error
\* and never with a total.
C1_NoOverlapWhenAllDisjoint ==
    (pc = "done" /\ C1_AllDisjoint) => result = NoOverlapError

C1_Witness ==
    /\ pc = "done"
    /\ C1_AllDisjoint
    /\ result = NoOverlapError
    /\ Len(tif_paths) >= 2
    /\ tif_paths[1] # tif_paths[2]

\* ---- C2
\* Tile k passes the bbox test and its clip does not report "no overlap".
C2_NonSkippedClip(k) ==
    /\ RectsMeet(BufferAt(k), TileAt(k))
    /\ Mask(BufferAt(k), TileAt(k)).exc # "ValueError"

C2_NoFatal == result.kind = "return" \/ result = NoOverlapError

C2_Sentinel(t) == IF t.nodata = None THEN Num(-200) ELSE t.nodata

\* Every cell of tile k under the buffer holds the nodata value or a
\* negative number.
C2_OnlyNodataOrNegative(k) ==
    \A rc \in TouchedCells(BufferAt(k), TileAt(k)) :
        LET v == CellValue(TileAt(k), rc)
        IN  v = C2_Sentinel(TileAt(k)) \/ (v.cls = "num" /\ v.v < 0)

\* C2: a call that no fatal error ends returns a total exactly when some
\* tile produced a non-skipped clip; the size of the total does not matter:
\* when the clipped tiles hold only nodata and negative cells under the
\* buffer, the call returns 0.
C2_SuccessIffClipped ==
    (pc = "done" /\ C2_NoFatal) =>
        /\ result.kind = "return" <=> \E k \in Positions : C2_NonSkippedClip(k)
        /\ ( /\ \E k \in Positions : C2_NonSkippedClip(k)
             /\ \A k \in Positions : C2_NonSkippedClip(k) => C2_OnlyNodataOrNegative(k) )
           => result = Return(0)

C2_Witness ==
    /\ pc = "done"
    /\ result = Return(0)
    /\ \E k \in Positions :
        /\ C2_NonSkippedClip(k)
        /\ C2_OnlyNodataOrNegative(k)
        /\ \E rc \in TouchedCells(BufferAt(k), TileAt(k)) :
               CellValue(TileAt(k), rc) = Num(-200)
        /\ \E rc \in TouchedCells(BufferAt(k), TileAt(k)) :
               CellValue(TileAt(k), rc).v \in (-199)..(-1)

\* ---- C3
\* The cell counts: under the buffer, not the sentinel, finite, not negative.
C3_Counts(g, t, rc) ==
    LET v == CellValue(t, rc)
        sentinel == IF t.nodata = None THEN Num(-200) ELSE t.nodata
    IN  /\ Touched(g, t, rc[1], rc[2])
        /\ v # sentinel
        /\ v.cls = "num"
        /\ v.v >= 0

\* The float sum, in row-major order, of the cells of t that count.
C3_QualifyingSum(g, t) ==
    LET all == Flatten(t.grid)
        w == Width(t)
    IN  FSum(SelectSeqBy(all,
                [n \in 1..Len(all) |-> C3_Counts(g, t, <<(n - 1) \div w, (n - 1) % w>>)]))

\* C3: the step that accumulates a clipped tile adds exactly the sum of the
\* cells under the buffer that are not the nodata sentinel (the declared
\* one, or -200), are finite and are not negative; no other step changes
\* the total.
C3_AddsQualifyingCells ==
    [][IF pc = "accum"
       THEN total_pop' = FAdd(total_pop, C3_QualifyingSum(BufferAt(i), TileAt(i)))
       ELSE total_pop' = total_pop]_vars

C3_Witness ==
    /\ pc = "for"
    /\ i >= 1
    /\ Logged("add", i)
    /\ total_pop > 0
    /\ TileAt(i).nodata = None
    /\ \E rc \in TouchedCells(BufferAt(i), TileAt(i)) : CellValue(TileAt(i), rc) = NaN
    /\ \E rc \in TouchedCells(BufferAt(i), TileAt(i)) : CellValue(TileAt(i), rc) = Num(-200)
    /\ \E rc \in TouchedCells(BufferAt(i), TileAt(i)) : CellValue(TileAt(i), rc) = PosInf

\* ---- C4
\* The positions whose tile opens and declares no CRS.
C4_NoCRSPositions == {k \in Positions : TileAt(k).opens /\ TileAt(k).crs = NoCRS}
SetMin(S) == CHOOSE m \in S : \A n \in S : m <= n

\* Tile j ends the call by itself: it cannot be opened, or its clip raises
\* an error that is not a ValueError.
C4_EndsCall(j) ==
    \/ ~TileAt(j).opens
    \/ /\ TileAt(j).crs # NoCRS
       /\ RectsMeet(BufferAt(j), TileAt(j))
       /\ Mask(BufferAt(j), TileAt(j)).exc \notin {"none", "ValueError"}

\* C4 as claimed: a tile without CRS anywhere in tif_paths always gives the
\* missing-CRS error.
C4_AlwaysMissingCRS ==
    (pc = "done" /\ C4_NoCRSPositions # {}) => result = MissingCRSError

\* C4 as amended: with a tile without CRS in tif_paths the call never
\* returns a total and never reports no-overlap; it raises the missing-CRS
\* error at the first such tile wherever the buffer lies, unless an earlier
\* tile already ended the call with its open or read error.
C4_MissingCRSUnlessEarlierError ==
    (pc = "done" /\ C4_NoCRSPositions # {}) =>
        LET k == SetMin(C4_NoCRSPositions)
        IN  /\ result.kind = "raise"
            /\ result # NoOverlapError
            /\ IF \E j \in 1..(k - 1) : C4_EndsCall(j)
               THEN i < k /\ C4_EndsCall(i) /\ result \in {OpenError, ReadError}
               ELSE i = k /\ result = MissingCRSError

C4_Witness ==
    /\ pc = "done"
    /\ result = MissingCRSError
    /\ i >= 2
    /\ any_overlap
    /\ ~RectsMeet(BufferAt(i), TileAt(i))

\* ---- C5
C5_Opened == {k \in Positions : Logged("open", k)}
C5_Closed == {k \in Positions : Logged("close", k)}

\* C5: the missing-CRS error ends the call in the iteration of the tile
\* without CRS, when exactly the tiles up to it have been opened; the
\* no-overlap error ends it only when every tile has been opened and closed.
C5_FailureOrder ==
    pc = "done" =>
        /\ result = MissingCRSError =>
              /\ TileAt(i).crs = NoCRS
              /\ C5_Opened = 1..i
              /\ log[Len(log) - 1] = Ev("open", i)
        /\ result = NoOverlapError =>
              /\ i = Len(tif_paths)
              /\ C5_Opened = Positions
              /\ C5_Closed = Positions

C5_Witness ==
    /\ pc = "done"
    /\ result = MissingCRSError
    /\ i >= 2
    /\ i < Len(tif_paths)
    /\ TileAt(i + 1).opens

\* ---- C6
C6_Unopenable == {k \in Positions : ~TileAt(k).opens}

\* C6: with a tile that cannot be opened in tif_paths the call never returns
\* a total: it raises at or before the first such tile, with the open error
\* when it gets there, and opens no tile after it.
C6_OpenFailureFatal ==
    (pc = "done" /\ C6_Unopenable # {}) =>
        LET k == SetMin(C6_Unopenable)
        IN  /\ result.kind = "raise"
            /\ result # NoOverlapError
            /\ i <= k
            /\ i = k => result = OpenError
            /\ C5_Opened \subseteq 1..(k - 1)

C6_Witness ==
    /\ pc = "done"
    /\ result = OpenError
    /\ total_pop > 0
    /\ any_overlap
    /\ i < Len(tif_paths)
    /\ TileAt(i + 1).opens

\* ---- C7
\* C7 as claimed: whatever fails in the clip of a tile, the call does not
\* end there with that failure.
C7_ClipFailureNeverSurfaced ==
    \A k \in Positions :
        (Logged("clip", k) /\ Mask(BufferAt(k), TileAt(k)).exc # "none")
            => ~(pc = "done" /\ i = k /\ result.kind = "raise" /\ result # NoOverlapError)

\* C7 as amended: a ValueError of the clip is absorbed: the tile is closed
\* and skipped, the total and the flag stay as they were and nothing is
\* raised; a clip error of another type leaves the function.
C7_ValueErrorAbsorbed ==
    [][pc = "mask" =>
        LET m == Mask(BufferAt(i), TileAt(i))
        IN  /\ m.exc = "ValueError" =>
                /\ pc' = "for"
                /\ total_pop' = total_pop
                /\ any_overlap' = any_overlap
                /\ result' = Running
                /\ src' = {}
            /\ m.exc \notin {"none", "ValueError"} =>
                /\ pc' = "done"
                /\ result' = Raise(m.exc, "read")]_vars

C7_Witness ==
    /\ pc = "for"
    /\ i >= 2
    /\ Logged("clip_skip", i)
    /\ ~Logged("add", i)
    /\ any_overlap
    /\ total_pop > 0
    /\ result = Running

\* ---- C8
\* C8: a tile whose bounding box is disjoint from the buffer's is never
\* clipped, and the step that rejects it leaves the total and the flag
\* alone; a tile whose bounding box overlaps or only touches the buffer's
\* goes on to the clip.
C8_BBoxFastReject ==
    /\ [](\A k \in Positions : Logged("clip", k) => RectsMeet(BufferAt(k), TileAt(k)))
    /\ [][pc = "bbox" =>
            IF ~RectsMeet(BufferAt(i), TileAt(i))
            THEN /\ pc' = "for"
                 /\ total_pop' = total_pop
                 /\ any_overlap' = any_overlap
                 /\ result' = result
                 /\ log' = log \o <<Ev("bbox_skip", i), Ev("close", i)>>
            ELSE /\ pc' = "mask"
                 /\ log' = log]_vars

\* The buffer's box touches the tile's box on its left edge only.
C8_Witness ==
    /\ pc = "mask"
    /\ BufferAt(i).x + BufferAt(i).r = TileAt(i).left
    /\ Mask(BufferAt(i), TileAt(i)).exc = "ValueError"

\* ---- C9
\* What the call returns or raises for the tile at position k alone.
Alone(k) == PopWithinBuffer(<<tif_paths[k]>>, lat, lon, buffer_m)
Overlapping == {k \in Positions : Alone(k).kind = "return"}

\* The float sum, in the order of tif_paths, of what the overlapping tiles
\* among the first k return alone.
RECURSIVE C9_SumOfAlone(_)
C9_SumOfAlone(k) ==
    IF k = 0 THEN 0
    ELSE IF k \in Overlapping THEN FAdd(C9_SumOfAlone(k - 1), Alone(k).value)
    ELSE C9_SumOfAlone(k - 1)

\* C9: a returned total is the sum, taken in the order of tif_paths, of the
\* totals the overlapping tiles return alone; the other tiles alone give
\* the no-overlap error and add nothing; of two tiles of which only the
\* second overlaps, the call returns what the second returns alone.
C9_Additive ==
    (pc = "done" /\ result.kind = "return") =>
        /\ result.value = C9_SumOfAlone(Len(tif_paths))
        /\ Overlapping # {}
        /\ \A k \in Positions \ Overlapping : Alone(k) = NoOverlapError
        /\ (Len(tif_paths) = 2 /\ Overlapping = {2}) => result = Alone(2)

C9_Witness ==
    /\ pc = "done"
    /\ Len(tif_paths) = 2
    /\ Overlapping = {2}
    /\ result.kind = "return"
    /\ result.value > 0
    /\ Logged("bbox_skip", 1)

\* ---- C10
\* The orders tif_paths can be put in.
Orders ==
    {pi \in [Positions -> Positions] : \A a, b \in Positions : pi[a] = pi[b] => a = b}
Reordered(pi) == [k \in Positions |-> tif_paths[pi[k]]]

\* The sum of what the overlapping tiles return alone, in exact arithmetic.
RECURSIVE C10_ExactSum(_)
C10_ExactSum(k) ==
    IF k = 0 THEN 0
    ELSE C10_ExactSum(k - 1) + (IF k \in Overlapping THEN Alone(k).value ELSE 0)

\* The float total v is the exact sum up to the rounding of the n - 1
\* additions after the first, each off by at most one part in 2^MantBits.
C10_WithinTolerance(v, exact, n) ==
    LET d == IF v >= exact THEN v - exact ELSE exact - v
    IN  d * (Pow2(MantBits) - (n - 1)) <= (n - 1) * exact

\* C10 as claimed: every order of tif_paths returns the very same total.
C10_SameTotalInEveryOrder ==
    (pc = "done" /\ result.kind = "return") =>
        \A pi \in Orders :
            PopWithinBuffer(Reordered(pi), lat, lon, buffer_m) = result

\* C10 as amended: when the call returns a total, every order of tif_paths
\* returns a total too, the same up to floating-point rounding (each is
\* within the rounding tolerance of the exact sum of the tiles' totals), and
\* the very same when at most two tiles overlap.
C10_SameTotalUpToRounding ==
    (pc = "done" /\ result.kind = "return") =>
        LET exact == C10_ExactSum(Len(tif_paths))
            n == Cardinality(Overlapping)
            others == {PopWithinBuffer(q, lat, lon, buffer_m) :
                          q \in {Reordered(pi) : pi \in Orders}}
        IN  /\ C10_WithinTolerance(result.value, exact, n)
            /\ \A other \in others :
                   /\ other.kind = "return"
                   /\ C10_WithinTolerance(other.value, exact, n)
            /\ n <= 2 => others = {result}

C10_Witness ==
    /\ pc = "done"
    /\ result.kind = "return"
    /\ Cardinality(Overlapping) = 3
    /\ \E pi \in Orders :
           PopWithinBuffer(Reordered(pi), lat, lon, buffer_m).value # result.value

\* ---- C13
\* C13: at most one dataset is open at any time, and only that of the
\* iteration under way; none is open between two iterations, after the loop
\* or when the call has ended, however it ended.
C13_ScopedHandles ==
    /\ Cardinality(src) <= 1
    /\ src \subseteq {i}
    /\ pc \in {"for", "open", "end", "done"} => src = {}
    /\ \A k \in Positions : Logged("open", k) /\ k < i => Logged("close", k)

\* The call ended with the read error of a clip, after an earlier tile was
\* skipped by the bbox test and another was accumulated.
C13_Witness ==
    /\ pc = "done"
    /\ result = ReadError
    /\ src = {}
    /\ i = 3
    /\ \E k \in 1..2 : Logged("bbox_skip", k)
    /\ \E k \in 1..2 : Logged("add", k)
    /\ Logged("close", 3)

\* ---- C15
\* C15: the running total is never negative, and neither is a returned
\* total, whatever the tiles hold.
C15_TotalNonNegative ==
    /\ total_pop >= 0
    /\ result.kind = "return" => result.value >= 0

\* A total was returned over cells that hold negative numbers and nodata.
C15_Witness ==
    /\ pc = "done"
    /\ result.kind = "return"
    /\ \E k \in Positions :
        /\ Logged("add", k)
        /\ \E rc \in TouchedCells(BufferAt(k), TileAt(k)) :
               CellValue(TileAt(k), rc) = Num(-5)
        /\ \E rc \in TouchedCells(BufferAt(k), TileAt(k)) :
               CellValue(TileAt(k), rc) = TileAt(k).nodata

\* ---- C11
\* The call with the same tiles and point and the radius r.
C11_At(r) == PopWithinBuffer(tif_paths, lat, lon, r)

\* Every populated cell (finite and not the sentinel) of the tile is
\* non-negative.
C11_NonNegativeCells(t) ==
    \A rc \in Cells(t) :
        LET v == CellValue(t, rc)
        IN  v.cls = "num" /\ v # Nodata(t) => v.v >= 0

C11_ReachesUnreadable(r) ==
    \E k \in Positions :
        LET t == TileAt(k)
        IN  /\ t.opens
            /\ t.crs # NoCRS
            /\ Mask(Buffer(Transform(t.crs, lon, lat), r), t).exc = "RasterioIOError"
            /\ ~BBoxSkip(Buffer(Transform(t.crs, lon, lat), r), t)

C12_Scenario(p) ==
    LET t == Disk(p)
        b == Bounds(t)
        c == Transform(t.crs, lon, lat)
    IN  /\ pc = "done"
        /\ tif_paths = <<p>>
        /\ t.res = 2
        /\ \A rc \in Cells(t) : CellValue(t, rc) = Num(10)
        /\ 2 * c.x = b.left + b.right
        /\ 2 * c.y = b.bottom + b.top
        /\ buffer_m = 4

\* The number of cells the buffer of the call covers in p.
C12_Covered(p) == Cardinality(TouchedCells(geom, Disk(p)))

\* C12 as stated: the buffer covers exactly 4 cells and the call returns
\* 40.0, whatever the size of the tile.
C12_FourCells ==
    \A p \in ScenarioPaths :
        C12_Scenario(p) => C12_Covered(p) = 4 /\ result = Return(40)

\* C12: the buffer covers every cell that lies within 1000 m of the centre:
\* the 16 cells of the 4 x 4 block around it, and the call returns 160.0;
\* only on a tile of just 2 x 2 cells are these 4 cells and 40.0.
C12_EveryCellInReach ==
    \A p \in ScenarioPaths :
        C12_Scenario(p) =>
            IF Height(Disk(p)) >= 4 /\ Width(Disk(p)) >= 4
            THEN C12_Covered(p) = 16 /\ result = Return(160)
            ELSE C12_Covered(p) = 4 /\ result = Return(40)

\* The scenario on the tile of 4 x 4 cells has returned.
C12_Witness ==
    /\ C12_Scenario("grid4.tif")
    /\ Logged("add", 1)
    /\ result = Return(160)

\* ---- C16
\* pyproj's CRS.is_geographic: the CRS counts in degrees.
C16_Geographic(crs) == crs = "EPSG:4326"

\* C16 as stated: a call that comes to a tile in a geographic CRS ends with
\* UnsupportedCRSUnitsError.
C16_GeographicFlagged ==
    pc = "done" /\ (\E k \in Positions : Logged("open", k)
                                          /\ C16_Geographic(TileAt(k).crs))
    => result.kind = "raise" /\ result.exc = "UnsupportedCRSUnitsError"

\* ---- C14
\* C14: whatever the interleaving, an invocation that has ended has the
\* result (total or error) of the same call run alone, and the datasets it
\* holds open are its own.
C14_SameAsAlone ==
    \A c \in CallIds :
        /\ calls[c].pc = "done" =>
               calls[c].result = PopWithinBuffer(calls[c].tif_paths, calls[c].lat,
                                                 calls[c].lon, calls[c].buffer_m)
        /\ calls[c].src \subseteq {calls[c].i}

\* One invocation has returned a total while another, given other tiles, is
\* between the clip and the addition of its second tile, with a total of
\* its own.
C14_Witness ==
    \E c, d \in CallIds :
        /\ calls[c].pc = "done"
        /\ calls[c].result.kind = "return"
        /\ calls[c].result.value > 0
        /\ calls[d].pc = "add"
        /\ calls[d].i = 2
        /\ calls[d].total_pop > 0
        /\ calls[d].tif_paths # calls[c].tif_paths

\* ---- C17
\* The attempts so far all failed.
C17_AllFailed == \A k \in 1..Len(retry.outcomes) : retry.outcomes[k] = "failed"

\* At most MAX_RETRIES attempts are made; a returned frame is that of the
\* first attempt that succeeded, which is the last attempt made; the call
\* raises RuntimeError exactly when MAX_RETRIES attempts have failed.
C17_Attempts ==
    /\ Len(retry.outcomes) <= MAX_RETRIES
    /\ retry.attempt <= MAX_RETRIES
    /\ \A k \in 1..(Len(retry.outcomes) - 1) : retry.outcomes[k] = "failed"
    /\ retry.result.kind = "return" <=>
           Len(retry.outcomes) > 0 /\ retry.outcomes[Len(retry.outcomes)] = "succeeded"
    /\ retry.result.kind = "return" => retry.result.value \in Frames
    /\ retry.result.kind = "raise" =>
           /\ retry.result.exc = "RuntimeError"
           /\ Len(retry.outcomes) = MAX_RETRIES
           /\ C17_AllFailed
    /\ retry.pc = "done" /\ Len(retry.outcomes) = MAX_RETRIES /\ C17_AllFailed
           => retry.result.kind = "raise"
    /\ retry.pc = "done" <=> retry.result # Running

\* C17: the properties of C17_Attempts hold in every state, no step is
\* taken once the call has returned or raised, and every call ends.
C17_BoundedRetries ==
    /\ [](C17_Attempts)
    /\ [][retry.pc # "done"]_vars
    /\ <>(retry.pc = "done")

\* The call returned the frame of its third attempt after two failures.
C17_Witness ==
    /\ retry.pc = "done"
    /\ retry.result.kind = "return"
    /\ retry.outcomes = <<"failed", "failed", "succeeded">>
    /\ Len(retry.slept) = 2

\* ---- C18
\* The characters of [A-Za-z0-9_].
C18_Allowed(c) == c \in {"a", "7", "_", "e", "x", "p", "o", "r", "t"}

\* C18 as stated: the returned name is not empty, is made of characters of
\* [A-Za-z0-9_] only, has no two underscores in a row and none at either
\* end; an input that is empty or has no such character gives "export".
C18_OnlyAllowedCharacters ==
    san.pc = "done" =>
        /\ san.result # << >>
        /\ \A k \in 1..Len(san.result) : C18_Allowed(san.result[k])
        /\ \A k \in 1..(Len(san.result) - 1) :
               ~(san.result[k] = "_" /\ san.result[k + 1] = "_")
        /\ san.result[1] # "_"
        /\ san.result[Len(san.result)] # "_"
        /\ (\A k \in 1..Len(san.input) : ~C18_Allowed(san.input[k]))
               => san.result = Export

\* What does hold of the returned name: the same with the Unicode word
\* characters in place of [A-Za-z0-9_].
C18_OnlyWordCharacters ==
    san.pc = "done" =>
        /\ san.result # << >>
        /\ \A k \in 1..Len(san.result) : san.result[k] \in WordChars \/ san.result = Export
        /\ \A k \in 1..(Len(san.result) - 1) :
               ~(san.result[k] = "_" /\ san.result[k + 1] = "_")
        /\ san.result[1] # "_"
        /\ san.result[Len(san.result)] # "_"
        /\ (\A k \in 1..Len(san.input) : san.input[k] \notin WordChars \/ san.input[k] = "_")
               => san.result = Export

\* ---- C19
\* The exports that main called, in order, given which it was to call and
\* whether the first of them raised.
C19_Selected ==
    IF tool.do_shp /\ "shp" \in tool.failed THEN <<"shp">>
    ELSE (IF tool.do_shp THEN <<"shp">> ELSE << >>)
         \o (IF tool.do_kmz THEN <<"kmz">> ELSE << >>)

\* Nothing is selected, or no layer is given.
C19_NothingToDo == tool.input_layer = "" \/ (~tool.do_shp /\ ~tool.do_kmz)

\* C19 as stated: with nothing selected or no layer, ValueError before any
\* export; otherwise exactly the selected exports run, the SHP first, the
\* KMZ not after a failed SHP.
C19_ExactlySelected ==
    tool.pc = "done" =>
        IF C19_NothingToDo
        THEN tool.result.kind = "raise" /\ tool.result.exc = "ValueError"
             /\ tool.ran = << >>
        ELSE tool.ran = C19_Selected

\* main left before the exports: Describe raised, or the output folder is
\* no directory.
C19_LeftEarly ==
    \/ tool.result = Raise("OSError", "Describe")
    \/ tool.result = Raise("ValueError", "Output folder does not exist")

\* C19: as stated, and no export runs either when the layer cannot be
\* described (Describe's error) or when the output folder is not an
\* existing directory (ValueError).
C19_SelectedUnlessLeftEarly ==
    tool.pc = "done" =>
        IF C19_NothingToDo
        THEN tool.result.kind = "raise" /\ tool.result.exc = "ValueError"
             /\ tool.ran = << >>
        ELSE IF C19_LeftEarly
        THEN tool.ran = << >> /\ (tool.out_folder \notin Dirs \/ tool.result.exc = "OSError")
        ELSE /\ tool.ran = C19_Selected
             /\ tool.out_folder \in Dirs
             /\ tool.result.kind = "return" <=> tool.failed = {}

\* Both exports were selected, one by a text and one by a bool, and ran in
\* order.
C19_Witness ==
    /\ tool.pc = "done"
    /\ tool.params[2] = PText(" Yes")
    /\ tool.params[3] = PBool(TRUE)
    /\ tool.ran = <<"shp", "kmz">>
    /\ tool.result.kind = "return"

\* ---- C20
\* scale is the smallest multiple of the step that is not below raw (both
\* in halves).
C20_RoundedUp(raw, scale) ==
    /\ scale % (2 * Step) = 0
    /\ scale >= raw
    /\ scale - 2 * Step < raw
    /\ raw % (2 * Step) = 0 => scale = raw

\* C20: the scale under which a feature is exported is the raw scale of
\* its extent rounded up to a multiple of 5000.
C20_ScaleRoundedUp ==
    /\ maps.pc = "export" => C20_RoundedUp(maps.raw_scale, maps.camera_scale)
    /\ \A e \in 1..Len(maps.exported) :
           /\ C20_RoundedUp(maps.exported[e].raw, maps.exported[e].scale)
           /\ maps.exported[e].raw = maps.rows[maps.exported[e].row].raw

\* Two maps were exported: one whose raw scale of 5000.5 went up to 10000,
\* one whose raw scale of 10000 stayed.
C20_Witness ==
    /\ maps.pc = "done"
    /\ Len(maps.exported) = 2
    /\ maps.exported[1].raw = 10001 /\ maps.exported[1].scale = 20000
    /\ maps.exported[2].raw = 20000 /\ maps.exported[2].scale = 20000

\* ---- C21
\* The rows that are exported: those with a geometry among the first lim.
C21_RowsWithGeometry(lim) == {r \in 1..lim : maps.rows[r].shape}

\* The rows of the maps written so far.
C21_ExportedRows == {maps.exported[e].row : e \in 1..Len(maps.exported)}

C23_BackoffGrowsToCap ==
    /\ Len(retry.slept) <= MAX_RETRIES
    /\ \A a \in 1..Len(retry.slept) :
           /\ retry.slept[a] <= 2 * BackoffCap
           /\ retry.slept[a] >= Min(2 * BackoffCap, 2 * Pow2(a))
           /\ retry.slept[a] < 2 * Pow2(a) + 4
           /\ a > 1 => retry.slept[a] >= retry.slept[a - 1]
    /\ retry.pc = "backoff" => retry.attempt = Len(retry.slept) + 1

\* All attempts failed: the first sleep had its longest jitter, the last
\* sleeps were cut to the cap.
C23_Witness ==
    /\ retry.pc = "done"
    /\ Len(retry.slept) = MAX_RETRIES
    /\ retry.slept[1] = 7
    /\ retry.slept[5] = 67
    /\ retry.slept[MAX_RETRIES] = 2 * BackoffCap

\* ---- C26
\* C26: a call with no tiles opens nothing and raises the no-overlap error,
\* the error of a call with one tile that the buffer does not reach.
C26_EmptyIsNoOverlap ==
    tif_paths = << >> =>
        /\ src = {}
        /\ log = << >>
        /\ i = 0
        /\ pc \in {"for", "end", "done"}
        /\ pc = "done" =>
               /\ result = NoOverlapError
               /\ result = PopWithinBuffer(<<"far.tif">>, lat, lon, buffer_m)
               /\ BBoxSkip(Buffer(Transform(Disk("far.tif").crs, lon, lat), buffer_m),
                           Disk("far.tif"))

\* The call with no tiles has ended.
C26_Witness ==
    /\ tif_paths = << >>
    /\ pc = "done"
    /\ result = NoOverlapError
    /\ ~any_overlap

\* ---- C25
\* C25 as stated: when export_kmz has finished the working directory is
\* gone, and a path is returned only if the file is at the destination.
C25_AlwaysRemoved ==
    kmz.pc = "done" =>
        /\ kmz.work_dir # "exists"
        /\ kmz.result.kind = "return" => kmz.dest

\* C25: on every path after the directory was made its removal is tried
\* before export_kmz finishes, and the directory is gone unless that
\* removal failed, which is ignored; a path is returned only if the file
\* is at the destination.
C25_RemovalAlwaysTried ==
    /\ kmz.pc = "done" =>
           /\ kmz.work_dir = "none" <=> kmz.result = Raise("OSError", "mkdtemp")
           /\ kmz.work_dir # "none" => kmz.rmtree # "not called"
           /\ kmz.work_dir = "exists" => kmz.rmtree = "failed"
           /\ kmz.work_dir = "removed" <=> kmz.rmtree = "removed"
           /\ kmz.result.kind = "return" => kmz.dest
           /\ kmz.result # Running
    /\ kmz.pc # "done" => kmz.rmtree = "not called" /\ kmz.result = Running

\* The direct write and the fallback both failed; the directory was removed
\* before the fallback's exception left the function.
C25_Witness ==
    /\ kmz.pc = "done"
    /\ kmz.trace = <<"lyrx", "direct raised", "fallback raised">>
    /\ kmz.result.kind = "raise"
    /\ kmz.work_dir = "removed"

\* ---- C24
\* C24: every request but the first starts right after a sleep of the
\* length SLEEP_BETWEEN_REQUESTS_SEC allows, and that sleep follows the end
\* of the request before, whether it gave rows or nothing; no request
\* starts right after another has ended.
C24_SleepBetweenRequests ==
    /\ \A k \in 1..Len(trends.log) :
           LET e == trends.log[k]
           IN  /\ e.ev = "start" /\ k > 1 =>
                      /\ trends.log[k - 1].ev = "sleep"
                      /\ k > 2
                      /\ trends.log[k - 2].ev = "end"
                      /\ <<trends.log[k - 2].pair, trends.log[k - 2].year>>
                             # <<e.pair, e.year>>
               /\ e.ev = "end" => k > 1 /\ trends.log[k - 1].ev = "start"
               /\ e.ev = "sleep" => k > 1 /\ trends.log[k - 1].ev = "end"
    /\ trends.pc \in {"years", "pairs", "write"} /\ trends.log # << >> =>
           /\ trends.log[Len(trends.log)].ev = "sleep"
           /\ trends.last_sleep >= SLEEP_BETWEEN_REQUESTS_SEC[1]
           /\ trends.last_sleep <= SLEEP_BETWEEN_REQUESTS_SEC[2]

\* A request that gave an empty frame and one that gave rows were each
\* followed by a sleep before the next request started.
C24_Witness ==
    /\ Len(trends.log) >= 8
    /\ trends.log[2].ev = "end" /\ trends.log[2].x = "empty"
    /\ trends.log[3].ev = "sleep"
    /\ trends.log[4].ev = "start"
    /\ trends.log[5].ev = "end" /\ trends.log[5].x = "rows"
    /\ trends.log[6].ev = "sleep"
    /\ trends.log[7].ev = "start"

\* ---- C22
\* What the computation for stadium k comes to with the radius at position
\* ri: the total, or none when there are no coordinates or the call raises.
C22_Outcome(ri, k) ==
    LET v == driver.stadiums[k]
        res == PopWithinBuffer(driver.tifs, v.lat, v.lon, BufferM(RADII_KM[ri]))
    IN  IF v.none \/ res.kind # "return" THEN NoTotal ELSE Total(res.value)

\* The rows are in order: failures last, totals descending.
C22_Ordered(ri, rows) ==
    \A a, b \in 1..Len(rows) :
        a < b =>
            LET x == C22_Outcome(ri, rows[a][1])
                y == C22_Outcome(ri, rows[b][1])
            IN  /\ x.none => y.none
                /\ ~x.none /\ ~y.none => x.v >= y.v

\* The CSV of the radius at position ri has one row per stadium, each with
\* the stadium's total or ERROR, in order.
C22_CsvComplete(ri) ==
    /\ ri <= Len(driver.csvs)
    /\ LET rows == driver.csvs[ri].rows
       IN  /\ driver.csvs[ri].radius_km = RADII_KM[ri]
           /\ Len(rows) = Len(driver.stadiums)
           /\ {rows[k][1] : k \in 1..Len(rows)} = 1..Len(driver.stadiums)
           /\ \A k \in 1..Len(rows) :
                  rows[k] = CsvRow([name |-> rows[k][1],
                                    total |-> C22_Outcome(ri, rows[k][1])])
           /\ C22_Ordered(ri, rows)

\* C22 as stated: the script, given tiles, ends with one CSV per radius,
\* each with one row per stadium, failed ones included, in order.
C22_OneResultPerStadium ==
    driver.pc = "done" /\ driver.tifs # << >> =>
        \A ri \in 1..Len(RADII_KM) : C22_CsvComplete(ri)

\* The same, for the dicts in which every stadium has coordinates.
C22_HoldsWithCoordinates ==
    /\ driver.pc = "done"
    /\ driver.tifs # << >>
    /\ \A k \in 1..Len(driver.stadiums) : ~driver.stadiums[k].none
    => \A ri \in 1..Len(RADII_KM) : C22_CsvComplete(ri)

====
